---- MODULE Spec2Model ----
(***************************************************************************)
(* Model of app/retrieval_system.py: the RetrievalSystem object, its       *)
(* connection lifecycle and the SIGIR'24 retrieve pipeline (entity-wise    *)
(* vector scoring, threshold filter, stable ranking, top-k cut, LLM-driven *)
(* subgraph extraction with contribution fallback).                        *)
(*                                                                         *)
(* A score is a Python float. The float that lies u units in the last      *)
(* place above the float nearest to d/10 is modelled as 100 * d + u, so    *)
(* that 0.5 is 500 and 0.6 + 0.7 = 1.2999999999999998 is 1299.             *)
(* A Python dict is a sequence of [k, v] records in insertion order.       *)
(***************************************************************************)
EXTENDS Integers, Sequences, FiniteSets, TLC

\* ---------------------------------------------------------------- bounds
MaxEntries == 2
MaxHits == 2

\* ------------------------------------------------------ program constants
SearchLimit == 5
ScoreThreshold == 300
DefaultMaxSources == 5
DefaultConfidenceThreshold == 500
GraphLimit == 10
RelatedLimit == 5
IssueScore == 900
RelatedScore == 700
SubgraphSource == "sigir24_subgraph"
FallbackSource == "sti_contribution_fallback"
VectorSource == "vector"
DefaultNodeType == "SubNode"

\* ------------------------------------------------------------ input sets
Calls == {1, 2}
TicketIds == {"TIC-1", "TIC-2"}
Scores == {400, 500}
RetrievalSections == {"product", "error"}
Sections == RetrievalSections \cup {"context"}
ContextValue == <<"session">>
OriginalQuery == "mobile app shows 502"

\* The points stored in the vector collection: id and payload.
Points ==
  { [id |-> 1, ticket_id |-> "TIC-1", node_type |-> "Description", text |-> "app returns 502"],
    [id |-> 2, ticket_id |-> "TIC-2", node_type |-> "Description", text |-> "gateway 502"] }

\* A collection in which one ticket has two points and one payload was
\* stored without the ticket_id field.
LoosePoints ==
  { [id |-> 1, ticket_id |-> "TIC-1", node_type |-> "Description", text |-> "app returns 502"],
    [id |-> 3, ticket_id |-> "TIC-1", node_type |-> "Comment", text |-> "still failing"],
    [id |-> 4, node_type |-> "Comment", text |-> "imported note"] }

\* ------------------------------------------------------------ dictionaries
EmptyDict == <<>>

DictHas(d, key) == \E i \in 1..Len(d) : d[i].k = key

DictGet(d, key, default) ==
  IF DictHas(d, key) THEN d[CHOOSE i \in 1..Len(d) : d[i].k = key].v ELSE default

DictSet(d, key, val) ==
  IF DictHas(d, key)
  THEN [i \in 1..Len(d) |-> IF d[i].k = key THEN [k |-> key, v |-> val] ELSE d[i]]
  ELSE Append(d, [k |-> key, v |-> val])

DictKeys(d) == [i \in 1..Len(d) |-> d[i].k]

Range(s) == {s[i] : i \in 1..Len(s)}

\* All sequences over S of length at most n.
SeqUpTo(S, n) == UNION {[1..m -> S] : m \in 0..n}

\* ------------------------------------------------------------ entity maps
\* The value QueryProcessor.process stores under each category: a list of the
\* strings found (one product, two errors), or the caller's context.
SectionValue(section) ==
  IF section = "product" THEN <<"mobile app">>
  ELSE IF section = "error" THEN <<"502", "timeout">>
  ELSE ContextValue

Entries == {[section |-> s, value |-> SectionValue(s)] : s \in Sections}

EntityMaps ==
  {m \in SeqUpTo(Entries, MaxEntries) :
     \A i, j \in 1..Len(m) : i # j => m[i].section # m[j].section}

\* ------------------------------------------------------------ options
NoOptions == [none |-> TRUE, dict |-> EmptyDict]

OptionDicts ==
  {<<[k |-> "max_sources", v |-> ms]>> : ms \in {0, 1}} \cup
  {<<[k |-> "confidence_threshold", v |-> 0]>>} \cup
  {<<[k |-> "max_sources", v |-> 1], [k |-> "confidence_threshold", v |-> 0]>>}

OptionsDomain == {NoOptions} \cup {[none |-> FALSE, dict |-> d] : d \in OptionDicts}

\* options = options or {}
OptionsOrEmpty(o) == IF o.none THEN EmptyDict ELSE o.dict

OptGet(d, key, default) == DictGet(d, key, default)

\* --------------------------------------------------- vector search adapter
\* What the embedding service and the index can answer to one search: the
\* embedding call fails, the index search fails, or the index returns at most
\* limit distinct points, best score first, none under the score threshold.
HitLists(limit, pts) ==
  {h \in SeqUpTo([point : pts, score : Scores], MaxHits) :
     /\ Len(h) <= limit
     /\ \A i \in 1..Len(h) : h[i].score >= ScoreThreshold
     /\ \A i, j \in 1..Len(h) : i < j => /\ h[i].point # h[j].point
                                         /\ h[i].score >= h[j].score}

\* lists: the hit lists the index can return.
VecOutcomes(limit, lists) ==
  {[status |-> "embed_fail", hits |-> <<>>], [status |-> "search_fail", hits |-> <<>>]}
  \cup {[status |-> "ok", hits |-> h] : h \in {l \in lists : Len(l) <= limit}}

\* hit.payload.get(field, empty string)
PayloadGet(payload, field) == IF field \in DOMAIN payload THEN payload[field] ELSE ""

HitToNode(hit) ==
  [ticket_id |-> PayloadGet(hit.point, "ticket_id"),
   node_type |-> PayloadGet(hit.point, "node_type"),
   text |-> PayloadGet(hit.point, "text"),
   score |-> hit.score,
   source |-> VectorSource,
   metadata |-> [vector_id |-> hit.point.id, node_id |-> PayloadGet(hit.point, "node_id")]]

\* Mutant of RetrieveFromVectors: a failed embedding or search propagates.
RetrieveFromVectorsNoCatch(client, out) ==
  [raised |-> client # "None" /\ out.status # "ok",
   nodes |-> IF client = "None" \/ out.status # "ok" THEN <<>>
             ELSE [i \in 1..Len(out.hits) |-> HitToNode(out.hits[i])]]

\* Mutant of RetrieveFromVectors: the records come out last hit first.
RetrieveFromVectorsReversed(client, out) ==
  [raised |-> FALSE,
   nodes |-> IF client = "None" THEN <<>>
             ELSE IF out.status # "ok" THEN <<>>
             ELSE [i \in 1..Len(out.hits) |-> HitToNode(out.hits[Len(out.hits) + 1 - i])]]

\* retrieve_from_vectors: [] without a client, [] when the embedding or the
\* search raised, else one record per hit in the order of the index.
RetrieveFromVectors(client, out) ==
  [raised |-> FALSE,
   nodes |-> IF client = "None" THEN <<>>
             ELSE IF out.status # "ok" THEN <<>>
             ELSE [i \in 1..Len(out.hits) |-> HitToNode(out.hits[i])]]

\* ------------------------------------------------------------ ticket scorer
\* The rounding of a + b in units in the last place, for every sum of a
\* total of at most three scores out of 0.3, 0.4, 0.5 and 0.7 with a fourth:
\* the float sum lies that many units off the float nearest to the decimal
\* sum. 0.6 + 0.3 is 0.8999999999999999, 0.6 + 0.7 is 1.2999999999999998,
\* 0.8 + 0.4 is 1.2000000000000002, 0.8999999999999999 + 0.3 is 1.2, and so
\* on; every sum that is not listed is the nearest float.
Rounding(a, b) ==
  CASE a = 600 /\ b = 300 -> -1
    [] a = 600 /\ b = 700 -> -1
    [] a = 800 /\ b = 400 -> 1
    [] a = 899 /\ b = 300 -> 1
    [] a = 899 /\ b = 500 -> 1
    [] a = 1100 /\ b = 300 -> 1
    [] a = 1201 /\ b = 400 -> -1
    [] a = 1300 /\ b = 400 -> 1
    [] a = 1400 /\ b = 400 -> -1
    [] a = 1400 /\ b = 700 -> -1
    [] a = 1401 /\ b = 700 -> -1
    [] a = 1600 /\ b = 300 -> 1
    [] a = 1799 /\ b = 500 -> 1
    [] a = 1799 /\ b = 700 -> 1
    [] a = 1900 /\ b = 300 -> -1
    [] a = 1900 /\ b = 700 -> -1
    [] a = 2099 /\ b = 700 -> 1
    [] OTHER -> 0

\* Python float addition a + b.
Plus(a, b) == a + b + Rounding(a, b)

\* Mutant of AddScore: the later hit overwrites the earlier total.
AddScoreOverwrite(scores, tid, score) == DictSet(scores, tid, score)

\* ticket_scores[tid] = ticket_scores.get(tid, 0) + score
AddScore(scores, tid, score) == DictSet(scores, tid, Plus(DictGet(scores, tid, 0), score))

\* Mutant of AddContribution: a node that is already held is not held twice.
AddContributionUnique(contribs, tid, node) ==
  IF node \in Range(DictGet(contribs, tid, <<>>)) THEN contribs
  ELSE DictSet(contribs, tid, Append(DictGet(contribs, tid, <<>>), node))

\* if tid not in ticket_contributions: ... = []; ticket_contributions[tid].append(node)
AddContribution(contribs, tid, node) ==
  DictSet(contribs, tid, Append(DictGet(contribs, tid, <<>>), node))

\* The inner loop over node_candidates, applied to the pair of dictionaries.
RECURSIVE FoldNodes(_, _)
FoldNodes(acc, nodes) ==
  IF nodes = <<>> THEN acc
  ELSE FoldNodes([scores |-> AddScore(acc.scores, Head(nodes).ticket_id, Head(nodes).score),
                  contribs |-> AddContribution(acc.contribs, Head(nodes).ticket_id, Head(nodes))],
                 Tail(nodes))

\* Mutant of Retained: equality no longer retains.
RetainedStrict(score, threshold) == score > threshold

\* if score >= confidence_threshold
Retained(score, threshold) == score >= threshold

\* for tid, score in ticket_scores.items(): if retained: ranked_tickets.append(...)
RECURSIVE BuildRanked(_, _, _)
BuildRanked(scores, contribs, threshold) ==
  IF scores = <<>> THEN <<>>
  ELSE LET rest == BuildRanked(Tail(scores), contribs, threshold)
           e == Head(scores)
       IN IF Retained(e.v, threshold)
          THEN <<[ticket_id |-> e.k, score |-> e.v,
                  contributions |-> DictGet(contribs, e.k, <<>>)]>> \o rest
          ELSE rest

\* Mutant of InsertDesc: an equal key goes in front of its equals.
InsertDescUnstable(sorted, x) ==
  LET n == Cardinality({i \in 1..Len(sorted) : sorted[i].score > x.score})
  IN SubSeq(sorted, 1, n) \o <<x>> \o SubSeq(sorted, n + 1, Len(sorted))

\* Position of x in a list already sorted by descending score: behind every
\* element whose score is not smaller (equal keys keep their order).
InsertDesc(sorted, x) ==
  LET n == Cardinality({i \in 1..Len(sorted) : sorted[i].score >= x.score})
  IN SubSeq(sorted, 1, n) \o <<x>> \o SubSeq(sorted, n + 1, Len(sorted))

\* ranked_tickets.sort(key=lambda x: x['score'], reverse=True)
RECURSIVE SortDesc(_)
SortDesc(s) ==
  IF s = <<>> THEN <<>>
  ELSE InsertDesc(SortDesc(SubSeq(s, 1, Len(s) - 1)), s[Len(s)])

\* Mutant of SliceTo: the cut keeps one element too many.
SliceToOneMore(s, k) == SubSeq(s, 1, IF k + 1 < Len(s) THEN k + 1 ELSE Len(s))

\* Mutant of SliceTo: a negative k is read as 0.
SliceToClamped(s, k) ==
  SubSeq(s, 1, IF k < 0 THEN 0 ELSE IF k < Len(s) THEN k ELSE Len(s))

\* Python slice s[:k]
SliceTo(s, k) ==
  IF k >= 0 THEN SubSeq(s, 1, IF k < Len(s) THEN k ELSE Len(s))
  ELSE SubSeq(s, 1, IF Len(s) + k > 0 THEN Len(s) + k ELSE 0)

\* ------------------------------------------------------- subgraph extractor
\* A Cypher text is a sequence of tokens [tok, arg]; "SP" is white space.
Tok(t) == [tok |-> t, arg |-> ""]
\* The code fence markers (three backquotes, with and without the language).
FenceCypher == "[fence]cypher"
Fence == "[fence]"
Anchor(tid) == [tok |-> "(i:Issue {id})", arg |-> tid]
Return(cols) == [tok |-> "RETURN", arg |-> cols]

OtherTicket(tid) == CHOOSE t \in TicketIds : t # tid

\* What the chat model can answer when asked for a query for ticket tid:
\* the commonly seen answers, and the full set.
CommonProposals(tid) ==
  { <<Tok("MATCH"), Anchor(tid), Return("text,type")>>,
    <<Tok("MATCH"), Anchor(OtherTicket(tid)), Return("text,type")>> }

Proposals(tid) ==
  CommonProposals(tid) \cup
  { <<Tok(FenceCypher), Tok("SP"), Tok("match"), Anchor(tid), Return("content"), Tok("SP"), Tok(Fence)>>,
    <<Tok("MATCH"), Tok("(n)"), Return("node")>>,
    <<Tok("MATCH"), Anchor(tid), Tok("DETACH DELETE")>>,
    <<Tok("MATCH"), Anchor(tid)>>,
    <<Tok("Here is the query:"), Tok("SP"), Tok("MATCH"), Anchor(tid), Return("text,type")>>,
    <<Tok("CREATE"), Anchor(tid), Return("text,type")>> }

\* Anchored answers that differ in the columns they return.
ColumnProposals(tid) ==
  { <<Tok("MATCH"), Anchor(tid), Return("text,content,type")>>,
    <<Tok("MATCH"), Anchor(tid), Return("content")>>,
    <<Tok("MATCH"), Anchor(tid), Return("node")>> }

\* Anchored answers, one of them with a write clause.
WriteProposals(tid) ==
  { <<Tok("MATCH"), Anchor(tid), Return("text,type")>>,
    <<Tok("MATCH"), Anchor(tid), Tok("DETACH DELETE")>> }

\* The profile of the chat and graph services: "down" (the chat model is not
\* reachable), "common" (the commonly seen answers), "columns", "write" or
\* "full".
LlmOutcomes(tid, profile) ==
  {[status |-> "llm_fail", content |-> <<>>]}
  \cup {[status |-> "ok", content |-> p] :
          p \in IF profile = "full" THEN Proposals(tid)
                ELSE IF profile = "common" THEN CommonProposals(tid)
                ELSE IF profile = "columns" THEN ColumnProposals(tid)
                ELSE IF profile = "write" THEN WriteProposals(tid)
                ELSE {}}

\* str.strip()
RECURSIVE StripLeft(_)
StripLeft(t) == IF t # <<>> /\ Head(t).tok = "SP" THEN StripLeft(Tail(t)) ELSE t

RECURSIVE StripRight(_)
StripRight(t) ==
  IF t # <<>> /\ t[Len(t)].tok = "SP" THEN StripRight(SubSeq(t, 1, Len(t) - 1)) ELSE t

Strip(t) == StripRight(StripLeft(t))

\* str.replace(old, empty)
RECURSIVE Remove(_, _)
Remove(t, old) ==
  IF t = <<>> THEN <<>>
  ELSE IF Head(t).tok = old THEN Remove(Tail(t), old)
  ELSE <<Head(t)>> \o Remove(Tail(t), old)

\* content.strip(), both code fence markers replaced by nothing, strip()
Sanitize(content) == Strip(Remove(Remove(Strip(content), FenceCypher), Fence))

\* str.upper() of a token
Upper(t) == IF t = "match" THEN "MATCH" ELSE t

\* cypher.upper().startswith("MATCH")
StartsWithMatch(cypher) == cypher # <<>> /\ Upper(cypher[1].tok) = "MATCH"

\* The proposal passes the check that precedes its execution.
Accepted(cypher, ticket_id) == StartsWithMatch(cypher)

\* ------------------------------------------------------------- graph store
\* The intra-issue trees: the child nodes of every Issue.
InitialGraph ==
  [t \in TicketIds |->
     IF t = "TIC-1"
     THEN <<[label |-> "Description", text |-> "app returns 502"],
            [label |-> "Comment", text |-> ""]>>
     ELSE <<[label |-> "Resolution", text |-> "restart gateway"]>>]

\* The order in which the store yields the trees.
StoreOrder == <<"TIC-1", "TIC-2">>

RECURSIVE ConcatTrees(_, _)
ConcatTrees(g, ts) ==
  IF ts = <<>> THEN <<>> ELSE g[Head(ts)] \o ConcatTrees(g, Tail(ts))

WellFormed(cypher) ==
  /\ Len(cypher) = 3
  /\ Upper(cypher[1].tok) = "MATCH"
  /\ cypher[2].tok \in {"(i:Issue {id})", "(n)"}
  /\ cypher[3].tok \in {"RETURN", "DETACH DELETE"}

Matched(g, cypher) ==
  IF cypher[2].tok = "(n)" THEN ConcatTrees(g, StoreOrder)
  ELSE IF cypher[2].arg \in DOMAIN g THEN g[cypher[2].arg] ELSE <<>>

\* The marker of Python None, the value of a property the node does not have.
NoneValue == "<None>"
Prop(n, p) == IF p \in DOMAIN n THEN n[p] ELSE NoneValue

Project(n, cols) ==
  IF cols = "text,type" THEN [text |-> n.text, type |-> n.label]
  ELSE IF cols = "text,content,type"
       THEN [text |-> Prop(n, "text"), content |-> Prop(n, "content"), type |-> Prop(n, "type")]
  ELSE IF cols = "content" THEN [content |-> n.text]
  ELSE [n |-> n.label]

\* The rows session.run(cypher) yields on the store g.
QueryRows(g, cypher) ==
  IF cypher[3].tok = "RETURN"
  THEN LET m == Matched(g, cypher) IN [i \in 1..Len(m) |-> Project(m[i], cypher[3].arg)]
  ELSE <<>>

\* The store after session.run(cypher).
QueryEffect(g, cypher) ==
  IF cypher[3].tok = "DETACH DELETE"
  THEN [t \in DOMAIN g |->
          IF cypher[2].tok = "(n)" \/ cypher[2].arg = t THEN <<>> ELSE g[t]]
  ELSE g

\* How one execution can end: all rows delivered, session.run raised, or the
\* iteration raised after that many collected rows.
GraphOutcomes(driver, g, cypher, profile) ==
  IF driver # "open" \/ ~WellFormed(cypher)
  THEN {[status |-> "run_error", collected |-> 0]}
  ELSE {[status |-> "ok", collected |-> Len(QueryRows(g, cypher))],
        [status |-> "run_error", collected |-> 0]}
       \cup {[status |-> "iter_error", collected |-> n] :
               n \in IF profile = "full" THEN 1..(Len(QueryRows(g, cypher)) - 1) ELSE {}}

RowGet(row, key) == IF key \in DOMAIN row THEN row[key] ELSE NoneValue
Falsy(v) == v = NoneValue \/ v = ""
Or(a, b) == IF Falsy(a) THEN b ELSE a

\* str(dict(record))
StrOfRow(row) ==
  IF "n" \in DOMAIN row THEN "{'n': <Node>}"
  ELSE IF "text" \in DOMAIN row /\ "content" \in DOMAIN row
       THEN "{'text': ..., 'content': ..., 'type': ...}"
  ELSE IF "content" \in DOMAIN row THEN "{'content': ''}"
  ELSE "{'text': '', 'type': ...}"

\* Mutant of RowToNode: a key that is present wins even when its value is
\* empty or None.
RowToNodeKeyOnly(row, ticket_id) ==
  [ticket_id |-> ticket_id,
   text |-> IF "text" \in DOMAIN row THEN row.text
            ELSE IF "content" \in DOMAIN row THEN row.content
            ELSE StrOfRow(row),
   node_type |-> IF "type" \in DOMAIN row THEN row.type ELSE DefaultNodeType]

\* One row of the result, standardised.
RowToNode(row, ticket_id) ==
  [ticket_id |-> ticket_id,
   text |-> Or(Or(RowGet(row, "text"), RowGet(row, "content")), StrOfRow(row)),
   node_type |-> Or(RowGet(row, "type"), DefaultNodeType)]

\* Mutant of ExtractSubgraph: when the iteration over the rows raises, the
\* rows collected so far are returned.
ExtractSubgraphPartial(driver, g, ticket_id, llm, gout) ==
  [raised |-> FALSE,
   nodes |->
     IF driver = "None" THEN <<>>
     ELSE IF llm.status # "ok" THEN <<>>
     ELSE LET cypher == Sanitize(llm.content)
          IN IF ~Accepted(cypher, ticket_id) THEN <<>>
             ELSE IF gout.status = "run_error" THEN <<>>
             ELSE LET rows == QueryRows(g, cypher)
                  IN [i \in 1..gout.collected |-> RowToNode(rows[i], ticket_id)]]

\* _extract_subgraph, given what the chat model and the graph store answered.
ExtractSubgraph(driver, g, ticket_id, llm, gout) ==
  [raised |-> FALSE,
   nodes |->
     IF driver = "None" THEN <<>>
     ELSE IF llm.status # "ok" THEN <<>>
     ELSE LET cypher == Sanitize(llm.content)
          IN IF ~Accepted(cypher, ticket_id) THEN <<>>
             ELSE IF gout.status # "ok" THEN <<>>
             ELSE LET rows == QueryRows(g, cypher)
                  IN [i \in 1..Len(rows) |-> RowToNode(rows[i], ticket_id)]]

\* ------------------------------------------------------------------ state
VARIABLES
  neo4j_driver,          \* self.neo4j_driver: "None", "open" or "closed"
  qdrant_client,         \* self.qdrant_client: "None" or "set"
  graph,                 \* content of the graph store
  stubbed,               \* the adapters are deterministic stubs
  adapter_log,           \* every adapter call made so far, in order
  pc,                    \* position of each retrieve call
  processed_query,       \* argument of each call
  options,               \* argument of each call
  idx,                   \* position of the loop over section_value_map.items()
  ticket_scores,         \* local dict ticket_id -> score
  ticket_contributions,  \* local dict ticket_id -> list of nodes
  ranked_tickets,        \* local list, after the sort
  top_k_candidates,      \* local list
  cand,                  \* position of the loop over top_k_candidates
  final_results          \* local list, the returned value once pc is "done"

vars == <<neo4j_driver, qdrant_client, graph, stubbed, adapter_log, pc, processed_query,
          options, idx, ticket_scores, ticket_contributions, ranked_tickets,
          top_k_candidates, cand, final_results>>

conn == <<neo4j_driver, qdrant_client>>
locals == <<processed_query, options, idx, ticket_scores, ticket_contributions,
            ranked_tickets, top_k_candidates, cand, final_results>>

Intents == {"troubleshooting"}

ProcessedQueries ==
  {[original_query |-> OriginalQuery, entities |-> m, intent |-> i,
    confidence |-> 800, processing_method |-> "hybrid"] :
     m \in EntityMaps, i \in Intents}

NoQuery == [original_query |-> "", entities |-> <<>>, intent |-> "",
            confidence |-> 0, processing_method |-> ""]

\* __init__: both connections unset.
InitCommon ==
  /\ neo4j_driver = "None"
  /\ qdrant_client = "None"
  /\ graph = InitialGraph
  /\ adapter_log = <<>>
  /\ pc = [c \in Calls |-> "idle"]
  /\ processed_query = [c \in Calls |-> NoQuery]
  /\ options = [c \in Calls |-> NoOptions]
  /\ idx = [c \in Calls |-> 0]
  /\ ticket_scores = [c \in Calls |-> EmptyDict]
  /\ ticket_contributions = [c \in Calls |-> EmptyDict]
  /\ ranked_tickets = [c \in Calls |-> <<>>]
  /\ top_k_candidates = [c \in Calls |-> <<>>]
  /\ cand = [c \in Calls |-> 0]
  /\ final_results = [c \in Calls |-> <<>>]

Init == InitCommon /\ stubbed = FALSE

NoCallActive == \A c \in Calls : pc[c] = "idle"

\* Mutant of Connecting: the client is created before the driver.
ConnectingClientFirst ==
  \E outcome \in {"ok", "neo4j_fail", "qdrant_fail"} :
    /\ qdrant_client' = IF outcome = "qdrant_fail" THEN qdrant_client ELSE "set"
    /\ neo4j_driver' = IF outcome = "ok" THEN "open" ELSE neo4j_driver

\* initialize(): the driver is created first, then the client; a failure of
\* either step is re-raised and leaves the later attribute untouched.
Connecting ==
  \E outcome \in {"ok", "neo4j_fail", "qdrant_fail"} :
    /\ neo4j_driver' = IF outcome = "neo4j_fail" THEN neo4j_driver ELSE "open"
    /\ qdrant_client' = IF outcome = "ok" THEN "set" ELSE qdrant_client

Initialize ==
  /\ NoCallActive
  /\ Connecting
  /\ UNCHANGED <<graph, stubbed, adapter_log, pc, locals>>

\* close(): closes the driver when there is one; the attribute stays set.
Closing ==
  /\ neo4j_driver # "None"
  /\ neo4j_driver' = "closed"
  /\ UNCHANGED qdrant_client

Close ==
  /\ NoCallActive
  /\ Closing
  /\ UNCHANGED <<graph, stubbed, adapter_log, pc, locals>>

\* ------------------------------------------------------------ adapter log
LogVector(c, text, limit, out) ==
  [call |-> c, kind |-> "vector", ticket |-> "", text |-> text, limit |-> limit,
   status |-> out.status, data |-> out.hits]

LogLlm(c, ticket_id, query, out) ==
  [call |-> c, kind |-> "llm", ticket |-> ticket_id, text |-> <<query>>, limit |-> 0,
   status |-> out.status, data |-> out.content]

LogGraph(c, ticket_id, cypher, out) ==
  [call |-> c, kind |-> "graph", ticket |-> ticket_id, text |-> cypher,
   limit |-> out.collected, status |-> out.status, data |-> <<>>]

LogOf(kind) == {i \in 1..Len(adapter_log) : adapter_log[i].kind = kind}

\* A stub answers a repeated request as it answered it before.
VectorChoices(text, limit, lists) ==
  LET seen == {i \in LogOf("vector") : adapter_log[i].text = text}
  IN IF stubbed /\ seen # {}
     THEN {[status |-> adapter_log[i].status, hits |-> adapter_log[i].data] : i \in seen}
     ELSE VecOutcomes(limit, lists)

LlmChoices(ticket_id, query, profile) ==
  LET seen == {i \in LogOf("llm") : adapter_log[i].ticket = ticket_id /\ adapter_log[i].text = <<query>>}
  IN IF stubbed /\ seen # {}
     THEN {[status |-> adapter_log[i].status, content |-> adapter_log[i].data] : i \in seen}
     ELSE LlmOutcomes(ticket_id, profile)

GraphChoices(cypher, profile) ==
  LET seen == {i \in LogOf("graph") : adapter_log[i].text = cypher}
  IN IF stubbed /\ seen # {}
     THEN {[status |-> adapter_log[i].status, collected |-> adapter_log[i].limit] : i \in seen}
     ELSE GraphOutcomes(neo4j_driver, graph, cypher, profile)

\* ---------------------------------------------------------------- retrieve
Entities(c) == processed_query[c].entities

\* Mutant of Begin: the score dictionaries live on the instance and are not
\* reset when a call starts.
BeginShared(c, pq, opts) ==
  /\ pc[c] = "idle"
  /\ pc' = [pc EXCEPT ![c] = "scoring"]
  /\ processed_query' = [processed_query EXCEPT ![c] = pq]
  /\ options' = [options EXCEPT ![c] = opts]
  /\ idx' = [idx EXCEPT ![c] = 1]
  /\ ticket_scores' = [ticket_scores EXCEPT ![c] = ticket_scores[3 - c]]
  /\ ticket_contributions' = [ticket_contributions EXCEPT ![c] = ticket_contributions[3 - c]]
  /\ ranked_tickets' = [ranked_tickets EXCEPT ![c] = <<>>]
  /\ top_k_candidates' = [top_k_candidates EXCEPT ![c] = <<>>]
  /\ cand' = [cand EXCEPT ![c] = 0]
  /\ final_results' = [final_results EXCEPT ![c] = <<>>]
  /\ UNCHANGED <<conn, graph, stubbed, adapter_log>>

\* retrieve(processed_query, options) is entered: the locals are fresh.
Begin(c, pq, opts) ==
  /\ pc[c] = "idle"
  /\ pc' = [pc EXCEPT ![c] = "scoring"]
  /\ processed_query' = [processed_query EXCEPT ![c] = pq]
  /\ options' = [options EXCEPT ![c] = opts]
  /\ idx' = [idx EXCEPT ![c] = 1]
  /\ ticket_scores' = [ticket_scores EXCEPT ![c] = EmptyDict]
  /\ ticket_contributions' = [ticket_contributions EXCEPT ![c] = EmptyDict]
  /\ ranked_tickets' = [ranked_tickets EXCEPT ![c] = <<>>]
  /\ top_k_candidates' = [top_k_candidates EXCEPT ![c] = <<>>]
  /\ cand' = [cand EXCEPT ![c] = 0]
  /\ final_results' = [final_results EXCEPT ![c] = <<>>]
  /\ UNCHANGED <<conn, graph, stubbed, adapter_log>>

\* Mutant of IsContext: the reserved key is treated like any other.
NeverContext(section) == FALSE

\* section == 'context'
IsContext(section) == section = "context"

\* if section == 'context': continue
SkipContext(c) ==
  /\ pc[c] = "scoring"
  /\ idx[c] <= Len(Entities(c))
  /\ IsContext(Entities(c)[idx[c]].section)
  /\ idx' = [idx EXCEPT ![c] = @ + 1]
  /\ UNCHANGED <<conn, graph, stubbed, adapter_log, pc, processed_query, options,
                 ticket_scores, ticket_contributions, ranked_tickets,
                 top_k_candidates, cand, final_results>>

\* The search text handed to retrieve_from_vectors for one dictionary entry.
SearchText(entry) == entry.value

\* One iteration of the loop over section_value_map.items(): one call of
\* retrieve_from_vectors and the fold of its nodes into the two dictionaries.
ScoreEntry(c, lists) ==
  /\ pc[c] = "scoring"
  /\ idx[c] <= Len(Entities(c))
  /\ ~IsContext(Entities(c)[idx[c]].section)
  /\ LET text == SearchText(Entities(c)[idx[c]])
         fold(r) ==
           IF r.raised
           THEN /\ pc' = [pc EXCEPT ![c] = "raised"]
                /\ UNCHANGED <<idx, ticket_scores, ticket_contributions>>
           ELSE LET acc == FoldNodes([scores |-> ticket_scores[c],
                                      contribs |-> ticket_contributions[c]], r.nodes)
                IN /\ ticket_scores' = [ticket_scores EXCEPT ![c] = acc.scores]
                   /\ ticket_contributions' = [ticket_contributions EXCEPT ![c] = acc.contribs]
                   /\ idx' = [idx EXCEPT ![c] = @ + 1]
                   /\ UNCHANGED pc
     IN IF qdrant_client = "None"
        THEN /\ fold(RetrieveFromVectors(qdrant_client, [status |-> "none", hits |-> <<>>]))
             /\ UNCHANGED adapter_log
        ELSE \E out \in VectorChoices(text, SearchLimit, lists) :
               /\ adapter_log' = Append(adapter_log, LogVector(c, text, SearchLimit, out))
               /\ fold(RetrieveFromVectors(qdrant_client, out))
  /\ UNCHANGED <<conn, graph, stubbed, processed_query, options, ranked_tickets,
                 top_k_candidates, cand, final_results>>

ConfidenceThreshold(c) ==
  OptGet(OptionsOrEmpty(options[c]), "confidence_threshold", DefaultConfidenceThreshold)

\* Mutant of TopK: a general inquiry is answered from one ticket only.
TopKByIntent(c) ==
  IF processed_query[c].intent = "general_inquiry" THEN 1
  ELSE OptGet(OptionsOrEmpty(options[c]), "max_sources", DefaultMaxSources)

\* Mutant of TopK: the default of the first read of max_sources is used.
TopKTen(c) == OptGet(OptionsOrEmpty(options[c]), "max_sources", 10)

\* k = options.get('max_sources', 5)
TopK(c) == OptGet(OptionsOrEmpty(options[c]), "max_sources", DefaultMaxSources)

\* Filter by threshold, sort by score, cut to the first k.
Rank(c) ==
  /\ pc[c] = "scoring"
  /\ idx[c] > Len(Entities(c))
  /\ LET ranked == SortDesc(BuildRanked(ticket_scores[c], ticket_contributions[c],
                                        ConfidenceThreshold(c)))
     IN /\ ranked_tickets' = [ranked_tickets EXCEPT ![c] = ranked]
        /\ top_k_candidates' = [top_k_candidates EXCEPT ![c] = SliceTo(ranked, TopK(c))]
  /\ cand' = [cand EXCEPT ![c] = 1]
  /\ pc' = [pc EXCEPT ![c] = "extracting"]
  /\ UNCHANGED <<conn, graph, stubbed, adapter_log, processed_query, options, idx,
                 ticket_scores, ticket_contributions, final_results>>

\* Mutant of SubgraphNodes: the nodes get the score of the ticket's first
\* contribution instead of the aggregate.
SubgraphNodesFirstHit(subgraph, candidate) ==
  [i \in 1..Len(subgraph) |->
     [ticket_id |-> subgraph[i].ticket_id, text |-> subgraph[i].text,
      node_type |-> subgraph[i].node_type, score |-> candidate.contributions[1].score,
      source |-> SubgraphSource]]

\* Mutant of SubgraphNodes: the nodes keep the tag of the graph traversal.
SubgraphNodesGraphTag(subgraph, candidate) ==
  [i \in 1..Len(subgraph) |->
     [ticket_id |-> subgraph[i].ticket_id, text |-> subgraph[i].text,
      node_type |-> subgraph[i].node_type, score |-> candidate.score,
      source |-> "graph"]]

\* node['score'] = candidate['score']; node['source'] = 'sigir24_subgraph'
SubgraphNodes(subgraph, candidate) ==
  [i \in 1..Len(subgraph) |->
     [ticket_id |-> subgraph[i].ticket_id, text |-> subgraph[i].text,
      node_type |-> subgraph[i].node_type, score |-> candidate.score,
      source |-> SubgraphSource]]

\* Mutant of FallbackNodes: the contributions keep their vector tag.
FallbackNodesUntagged(candidate) == candidate.contributions

\* Mutant of FallbackNodes: the nodes get the aggregate score of the ticket.
FallbackNodesAggregate(candidate) ==
  [i \in 1..Len(candidate.contributions) |->
     [candidate.contributions[i] EXCEPT !.source = FallbackSource, !.score = candidate.score]]

\* node['source'] = 'sti_contribution_fallback'
FallbackNodes(candidate) ==
  [i \in 1..Len(candidate.contributions) |->
     [candidate.contributions[i] EXCEPT !.source = FallbackSource]]

\* Mutant of AppendAll: the block of a ticket is put in front of the list.
AppendAllFront(results, nodes) == nodes \o results

\* final_results.append(node) for every node of the block, in order.
AppendAll(results, nodes) == results \o nodes

\* Mutant of Emit: one node per ticket.
EmitCapped(subgraph, candidate) ==
  SubSeq(IF subgraph # <<>> THEN SubgraphNodes(subgraph, candidate)
         ELSE FallbackNodes(candidate), 1, 1)

\* for node in subgraph: ... else: for node in candidate['contributions']: ...
Emit(subgraph, candidate) ==
  IF subgraph # <<>> THEN SubgraphNodes(subgraph, candidate) ELSE FallbackNodes(candidate)

NoGraphCall == [status |-> "none", collected |-> 0]
NoLlmCall == [status |-> "none", content |-> <<>>]

\* Mutant of Extract: the loop ends at the first extraction without nodes.
ExtractStopOnFailure(c, profile) ==
  /\ pc[c] = "extracting"
  /\ cand[c] <= Len(top_k_candidates[c])
  /\ LET candidate == top_k_candidates[c][cand[c]]
         tid == candidate.ticket_id
         query == processed_query[c].original_query
         emit(r) ==
           IF r.raised
           THEN /\ pc' = [pc EXCEPT ![c] = "raised"]
                /\ UNCHANGED <<cand, final_results>>
           ELSE /\ final_results' = [final_results EXCEPT ![c] = AppendAll(@, Emit(r.nodes, candidate))]
                /\ cand' = [cand EXCEPT ![c] = IF r.nodes = <<>> THEN Len(top_k_candidates[c]) + 1
                                                 ELSE @ + 1]
                /\ UNCHANGED pc
     IN IF neo4j_driver = "None"
        THEN /\ emit(ExtractSubgraph(neo4j_driver, graph, tid, NoLlmCall, NoGraphCall))
             /\ UNCHANGED <<adapter_log, graph>>
        ELSE \E llm \in LlmChoices(tid, query, profile) :
               IF llm.status = "ok" /\ Accepted(Sanitize(llm.content), tid)
               THEN \E gout \in GraphChoices(Sanitize(llm.content), profile) :
                      /\ adapter_log' = adapter_log \o
                           <<LogLlm(c, tid, query, llm),
                             LogGraph(c, tid, Sanitize(llm.content), gout)>>
                      /\ graph' = IF gout.status = "ok" /\ ~stubbed
                                  THEN QueryEffect(graph, Sanitize(llm.content))
                                  ELSE graph
                      /\ emit(ExtractSubgraph(neo4j_driver, graph, tid, llm, gout))
               ELSE /\ adapter_log' = Append(adapter_log, LogLlm(c, tid, query, llm))
                    /\ graph' = graph
                    /\ emit(ExtractSubgraph(neo4j_driver, graph, tid, llm, NoGraphCall))
  /\ UNCHANGED <<conn, stubbed, processed_query, options, idx, ticket_scores,
                 ticket_contributions, ranked_tickets, top_k_candidates>>

\* One iteration of the loop over top_k_candidates: one call of
\* _extract_subgraph and the append of its nodes or of the contributions.
Extract(c, profile) ==
  /\ pc[c] = "extracting"
  /\ cand[c] <= Len(top_k_candidates[c])
  /\ LET candidate == top_k_candidates[c][cand[c]]
         tid == candidate.ticket_id
         query == processed_query[c].original_query
         emit(r) ==
           IF r.raised
           THEN /\ pc' = [pc EXCEPT ![c] = "raised"]
                /\ UNCHANGED <<cand, final_results>>
           ELSE /\ final_results' = [final_results EXCEPT ![c] = AppendAll(@, Emit(r.nodes, candidate))]
                /\ cand' = [cand EXCEPT ![c] = @ + 1]
                /\ UNCHANGED pc
     IN IF neo4j_driver = "None"
        THEN /\ emit(ExtractSubgraph(neo4j_driver, graph, tid, NoLlmCall, NoGraphCall))
             /\ UNCHANGED <<adapter_log, graph>>
        ELSE \E llm \in LlmChoices(tid, query, profile) :
               IF llm.status = "ok" /\ Accepted(Sanitize(llm.content), tid)
               THEN \E gout \in GraphChoices(Sanitize(llm.content), profile) :
                      /\ adapter_log' = adapter_log \o
                           <<LogLlm(c, tid, query, llm),
                             LogGraph(c, tid, Sanitize(llm.content), gout)>>
                      /\ graph' = IF gout.status = "ok" /\ ~stubbed
                                  THEN QueryEffect(graph, Sanitize(llm.content))
                                  ELSE graph
                      /\ emit(ExtractSubgraph(neo4j_driver, graph, tid, llm, gout))
               ELSE /\ adapter_log' = Append(adapter_log, LogLlm(c, tid, query, llm))
                    /\ graph' = graph
                    /\ emit(ExtractSubgraph(neo4j_driver, graph, tid, llm, NoGraphCall))
  /\ UNCHANGED <<conn, stubbed, processed_query, options, idx, ticket_scores,
                 ticket_contributions, ranked_tickets, top_k_candidates>>

\* return final_results
Finish(c) ==
  /\ pc[c] = "extracting"
  /\ cand[c] > Len(top_k_candidates[c])
  /\ pc' = [pc EXCEPT ![c] = "done"]
  /\ UNCHANGED <<conn, graph, stubbed, adapter_log, locals>>

Retrieve1 == \E pq \in ProcessedQueries, opts \in OptionsDomain : Begin(1, pq, opts)
SkipContext1 == SkipContext(1)
ScoreEntry1 == ScoreEntry(1, HitLists(SearchLimit, Points))
Rank1 == Rank(1)
Extract1 == Extract(1, "common")
Finish1 == Finish(1)

Next ==
  \/ Initialize
  \/ Close
  \/ Retrieve1
  \/ SkipContext1
  \/ ScoreEntry1
  \/ Rank1
  \/ Extract1
  \/ Finish1

Spec == Init /\ [][Next]_vars

\* Two successive calls with identical arguments against deterministic stubs.
InitRepeat == InitCommon /\ stubbed = TRUE

RetrieveAgain == pc[1] = "done" /\ Begin(2, processed_query[1], options[1])
SkipContextAny == \E c \in Calls : SkipContext(c)
ScoreEntryAny == \E c \in Calls : ScoreEntry(c, HitLists(SearchLimit, Points))
RankAny == \E c \in Calls : Rank(c)
ExtractAny == \E c \in Calls : Extract(c, "common")
FinishAny == \E c \in Calls : Finish(c)

NextRepeat ==
  \/ Initialize
  \/ Retrieve1
  \/ RetrieveAgain
  \/ SkipContextAny
  \/ ScoreEntryAny
  \/ RankAny
  \/ ExtractAny
  \/ FinishAny

SpecRepeat == InitRepeat /\ [][NextRepeat]_vars

\* Calls on a single-category entity map against the collection LoosePoints.
RetrieveOne ==
  \E pq \in {q \in ProcessedQueries : Len(q.entities) <= 1}, opts \in OptionsDomain :
    Begin(1, pq, opts)
ScoreEntryLoose == ScoreEntry(1, HitLists(SearchLimit, LoosePoints))

NextVector ==
  \/ Initialize
  \/ Close
  \/ RetrieveOne
  \/ SkipContext1
  \/ ScoreEntryLoose
  \/ Rank1
  \/ Extract1
  \/ Finish1

SpecVector == Init /\ [][NextVector]_vars

\* Calls on a single-category entity map with a chat model that can answer
\* anything and a graph store that can fail at any row.
ExtractFull == Extract(1, "full")

NextExtract ==
  \/ Initialize
  \/ Close
  \/ RetrieveOne
  \/ SkipContext1
  \/ ScoreEntry1
  \/ Rank1
  \/ ExtractFull
  \/ Finish1

SpecExtract == Init /\ [][NextExtract]_vars

\* The records QueryProcessor.process can build for the same query text and
\* the same entities when intent detection and the LLM extraction end
\* differently.
Variants(pq) ==
  { [pq EXCEPT !.intent = "general_inquiry"],
    [pq EXCEPT !.intent = "bug_report", !.confidence = 600, !.processing_method = "rule_based"] }

\* A second call, against deterministic stubs, whose record differs from the
\* first call's in intent, confidence or processing_method only.
RetrieveVariant ==
  /\ pc[1] = "done"
  /\ \E pq \in Variants(processed_query[1]) : Begin(2, pq, options[1])

NextIntent ==
  \/ Initialize
  \/ Retrieve1
  \/ RetrieveVariant
  \/ SkipContextAny
  \/ ScoreEntryAny
  \/ RankAny
  \/ ExtractAny
  \/ FinishAny

SpecIntent == InitRepeat /\ [][NextIntent]_vars

\* A collection with one point for each of seven tickets, and the answers of
\* the index: five tickets at 0.5, or a sixth at 0.5 and a seventh at 0.4.
WideTickets == {"TIC-1", "TIC-2", "TIC-3", "TIC-4", "TIC-5", "TIC-6", "TIC-7"}

WidePoint(n, tid) == [id |-> n, ticket_id |-> tid, node_type |-> "Description", text |-> "gateway 502"]

WideLists ==
  { <<>>,
    <<[point |-> WidePoint(1, "TIC-1"), score |-> 500], [point |-> WidePoint(2, "TIC-2"), score |-> 500],
      [point |-> WidePoint(3, "TIC-3"), score |-> 500], [point |-> WidePoint(4, "TIC-4"), score |-> 500],
      [point |-> WidePoint(5, "TIC-5"), score |-> 500]>>,
    <<[point |-> WidePoint(6, "TIC-6"), score |-> 500], [point |-> WidePoint(7, "TIC-7"), score |-> 400]>> }

\* The options a caller can pass: None, the empty dict, dicts with the two
\* recognized keys, with include_similar and with a key retrieve does not know.
OptionFamily ==
  {NoOptions} \cup
  {[none |-> FALSE, dict |-> d] :
     d \in { EmptyDict,
             <<[k |-> "include_similar", v |-> TRUE]>>,
             <<[k |-> "debug", v |-> 1]>>,
             <<[k |-> "max_sources", v |-> 6]>>,
             <<[k |-> "include_similar", v |-> FALSE], [k |-> "max_sources", v |-> 6]>>,
             <<[k |-> "confidence_threshold", v |-> 0]>>,
             <<[k |-> "confidence_threshold", v |-> 0], [k |-> "debug", v |-> 1]>> }}

\* The value the caller gave for a key, as a list of at most one element.
Given(o, key) ==
  IF o.none THEN <<>>
  ELSE LET at == {i \in 1..Len(o.dict) : o.dict[i].k = key}
       IN IF at = {} THEN <<>> ELSE <<o.dict[CHOOSE i \in at : TRUE].v>>

Agree(o1, o2) ==
  /\ Given(o1, "max_sources") = Given(o2, "max_sources")
  /\ Given(o1, "confidence_threshold") = Given(o2, "confidence_threshold")

RetrieveWide == \E pq \in ProcessedQueries, opts \in OptionFamily : Begin(1, pq, opts)

\* A second call with the same record and other options that agree with the
\* first call's on max_sources and confidence_threshold.
RetrieveAgreeing ==
  /\ pc[1] = "done"
  /\ \E opts \in OptionFamily :
       /\ opts # options[1]
       /\ Agree(opts, options[1])
       /\ Begin(2, processed_query[1], opts)

ScoreEntryWide == \E c \in Calls : ScoreEntry(c, WideLists)
ExtractDown == \E c \in Calls : Extract(c, "down")

NextOptions ==
  \/ Initialize
  \/ RetrieveWide
  \/ RetrieveAgreeing
  \/ SkipContextAny
  \/ ScoreEntryWide
  \/ RankAny
  \/ ExtractDown
  \/ FinishAny

SpecOptions == InitRepeat /\ [][NextOptions]_vars

\* Calls against a graph store whose first child node of TIC-1 has any
\* combination of a missing, an empty and a filled text, content and type
\* property, with a chat model that asks for differing columns.
RowValues == {NoneValue, "", "filled"}

RowNodes ==
  {[label |-> "Comment", text |-> t, content |-> ct, type |-> ty] :
     t \in RowValues, ct \in RowValues, ty \in {NoneValue, "", "Comment"}}

RowGraphs ==
  {[t \in TicketIds |->
      IF t = "TIC-1" THEN <<n, [label |-> "Description", text |-> "app returns 502"]>>
      ELSE <<[label |-> "Resolution", text |-> "restart gateway"]>>] : n \in RowNodes}

InitRows ==
  /\ neo4j_driver = "None"
  /\ qdrant_client = "None"
  /\ graph \in RowGraphs
  /\ stubbed = FALSE
  /\ adapter_log = <<>>
  /\ pc = [c \in Calls |-> "idle"]
  /\ processed_query = [c \in Calls |-> NoQuery]
  /\ options = [c \in Calls |-> NoOptions]
  /\ idx = [c \in Calls |-> 0]
  /\ ticket_scores = [c \in Calls |-> EmptyDict]
  /\ ticket_contributions = [c \in Calls |-> EmptyDict]
  /\ ranked_tickets = [c \in Calls |-> <<>>]
  /\ top_k_candidates = [c \in Calls |-> <<>>]
  /\ cand = [c \in Calls |-> 0]
  /\ final_results = [c \in Calls |-> <<>>]

ExtractColumns == Extract(1, "columns")

NextRows ==
  \/ Initialize
  \/ Close
  \/ RetrieveOne
  \/ SkipContext1
  \/ ScoreEntry1
  \/ Rank1
  \/ ExtractColumns
  \/ Finish1

SpecRows == InitRows /\ [][NextRows]_vars

\* Two calls for the same query whose entity maps hold the same entries in
\* another order (QueryProcessor.process fills the map in the iteration
\* order of a set of strings), against deterministic stubs. The index knows
\* two points of TIC-1 and one of TIC-2.
OrderLists ==
  { <<>>,
    <<[point |-> [id |-> 1, ticket_id |-> "TIC-1", node_type |-> "Description",
                  text |-> "app returns 502"], score |-> 300],
      [point |-> [id |-> 3, ticket_id |-> "TIC-1", node_type |-> "Comment",
                  text |-> "still failing"], score |-> 300]>>,
    <<[point |-> [id |-> 1, ticket_id |-> "TIC-1", node_type |-> "Description",
                  text |-> "app returns 502"], score |-> 700]>>,
    <<[point |-> [id |-> 2, ticket_id |-> "TIC-2", node_type |-> "Description",
                  text |-> "gateway 502"], score |-> 700],
      [point |-> [id |-> 1, ticket_id |-> "TIC-1", node_type |-> "Description",
                  text |-> "app returns 502"], score |-> 400]>> }

OrderOptions ==
  {NoOptions, [none |-> FALSE, dict |-> <<[k |-> "confidence_threshold", v |-> 1300]>>]}

Reorderings(m) == {q \in EntityMaps : Range(q) = Range(m) /\ q # m}

RetrieveOrder == \E pq \in ProcessedQueries, opts \in OrderOptions : Begin(1, pq, opts)

RetrieveReordered ==
  /\ pc[1] = "done"
  /\ \E m \in Reorderings(processed_query[1].entities) :
       Begin(2, [processed_query[1] EXCEPT !.entities = m], options[1])

ScoreEntryOrder == \E c \in Calls : ScoreEntry(c, OrderLists)

NextOrder ==
  \/ Initialize
  \/ RetrieveOrder
  \/ RetrieveReordered
  \/ SkipContextAny
  \/ ScoreEntryOrder
  \/ RankAny
  \/ ExtractDown
  \/ FinishAny

SpecOrder == InitRepeat /\ [][NextOrder]_vars

\* Two calls on the same instance, interleaved at the adapter calls.
RetrieveEither ==
  \E c \in Calls, pq \in {q \in ProcessedQueries : Len(q.entities) <= 1} :
    Begin(c, pq, NoOptions)

ExtractWrite == \E c \in Calls : Extract(c, "write")

NextConcurrent ==
  \/ Initialize
  \/ RetrieveEither
  \/ SkipContextAny
  \/ ScoreEntryAny
  \/ RankAny
  \/ ExtractWrite
  \/ FinishAny

SpecConcurrent == Init /\ [][NextConcurrent]_vars

\* Calls with a negative max_sources.
NegativeOptions ==
  {[none |-> FALSE, dict |-> d] :
     d \in { <<[k |-> "max_sources", v |-> 0 - 1]>>,
             <<[k |-> "max_sources", v |-> 0 - 2]>>,
             <<[k |-> "max_sources", v |-> 0 - 1], [k |-> "confidence_threshold", v |-> 0]>> }}

RetrieveNegative == \E pq \in ProcessedQueries, opts \in NegativeOptions : Begin(1, pq, opts)

NextNegative ==
  \/ Initialize
  \/ RetrieveNegative
  \/ SkipContext1
  \/ ScoreEntry1
  \/ Rank1
  \/ Extract1
  \/ Finish1

SpecNegative == Init /\ [][NextNegative]_vars

\* Two calls one after the other, with initialize and close before the
\* first and between the two.
BetweenCalls == pc[1] = "done" /\ pc[2] = "idle"

InitializeBetween ==
  /\ BetweenCalls
  /\ Connecting
  /\ UNCHANGED <<graph, stubbed, adapter_log, pc, locals>>

CloseBetween ==
  /\ BetweenCalls
  /\ Closing
  /\ UNCHANGED <<graph, stubbed, adapter_log, pc, locals>>

RetrieveFirst ==
  /\ pc[2] = "idle"
  /\ \E pq \in {q \in ProcessedQueries : Len(q.entities) <= 1} : Begin(1, pq, NoOptions)

RetrieveSecond ==
  /\ pc[1] = "done"
  /\ \E pq \in {q \in ProcessedQueries : Len(q.entities) <= 1} : Begin(2, pq, NoOptions)

\* The index answers with at most one hit.
ScoreEntryShort ==
  \E c \in Calls : ScoreEntry(c, {l \in HitLists(SearchLimit, Points) : Len(l) <= 1})

NextLifecycle ==
  \/ Initialize
  \/ Close
  \/ InitializeBetween
  \/ CloseBetween
  \/ RetrieveFirst
  \/ RetrieveSecond
  \/ SkipContextAny
  \/ ScoreEntryShort
  \/ RankAny
  \/ ExtractWrite
  \/ FinishAny

SpecLifecycle == Init /\ [][NextLifecycle]_vars

\* ------------------------------------------------- legacy graph traversal
\* The Issue nodes of the graph store: thirteen issues, twelve of the mobile
\* app, eleven of them tagged 502. The related list of an issue holds the
\* nodes within max_hops of it; the first issue has seven (one of them
\* without a label), the second has six, the others have one or none.
IssueIds ==
  <<"TIC-1", "TIC-2", "TIC-3", "TIC-4", "TIC-5", "TIC-6", "TIC-7", "TIC-8",
    "TIC-9", "TIC-10", "TIC-11", "TIC-12", "TIC-13">>

RelatedNode(label, text) == [labels |-> label, text |-> text]

RelatedOf(n) ==
  IF n = 1
  THEN <<RelatedNode(<<"Comment">>, "c1"), RelatedNode(<<>>, "bare"),
         RelatedNode(<<"Resolution">>, "restart"), RelatedNode(<<"Comment">>, "c2"),
         RelatedNode(<<"Comment">>, "c3"), RelatedNode(<<"Comment">>, "c4"),
         RelatedNode(<<"Comment">>, "c5")>>
  ELSE IF n = 2
  THEN [m \in 1..6 |-> RelatedNode(<<"Comment">>, "c1")]
  ELSE IF n % 2 = 1 THEN <<RelatedNode(<<"Description">>, "d")>>
  ELSE <<>>

IssueStore ==
  [n \in 1..Len(IssueIds) |->
     [id |-> IssueIds[n], title |-> "login fails",
      product |-> IF n = 12 THEN {"web"} ELSE {"mobile app"},
      tags |-> IF n = 12 THEN {"timeout"} ELSE IF n = 13 THEN {} ELSE {"502"},
      related |-> RelatedOf(n)]]

\* The entity maps the traversal is called with.
GraphEntityMaps ==
  { <<>>,
    <<[section |-> "product", value |-> <<"mobile app">>]>>,
    <<[section |-> "error", value |-> <<"502", "timeout">>]>>,
    <<[section |-> "product", value |-> <<"mobile app">>],
      [section |-> "error", value |-> <<"502", "timeout">>]>>,
    <<[section |-> "product", value |-> <<>>],
      [section |-> "error", value |-> <<"502", "timeout">>]>> }

\* entities.get(section): the list stored under the section, or None.
EntityGet(entities, section) ==
  IF \E i \in 1..Len(entities) : entities[i].section = section
  THEN entities[CHOOSE i \in 1..Len(entities) : entities[i].section = section].value
  ELSE <<>>

\* query_parts: one condition per section that has at least one entity.
WhereParts(entities) ==
  (IF EntityGet(entities, "product") # <<>> THEN <<"product">> ELSE <<>>) \o
  (IF EntityGet(entities, "error") # <<>> THEN <<"error">> ELSE <<>>)

\* The query text and its parameters; no condition stands for WHERE true.
IssueQuery(entities) ==
  [where |-> WhereParts(entities),
   products |-> EntityGet(entities, "product"),
   errors |-> EntityGet(entities, "error"),
   limit |-> GraphLimit]

\* ANY(product IN $products WHERE product IN i.product), and the same for
\* the errors and i.tags, joined by AND.
Satisfies(issue, cypher) ==
  \A n \in 1..Len(cypher.where) :
    IF cypher.where[n] = "product"
    THEN \E x \in Range(cypher.products) : x \in issue.product
    ELSE \E x \in Range(cypher.errors) : x \in issue.tags

\* The subsequences of s of length n.
RECURSIVE Subseqs(_, _)
Subseqs(s, n) ==
  IF n = 0 THEN {<<>>}
  ELSE IF Len(s) < n THEN {}
  ELSE {<<Head(s)>> \o t : t \in Subseqs(Tail(s), n - 1)} \cup Subseqs(Tail(s), n)

\* What the graph store can answer: one record per matching issue, any
\* limit of them when there are more (the query has no ORDER BY).
IssueRecords(cypher) ==
  LET matching == SelectSeq(IssueStore, LAMBDA issue : Satisfies(issue, cypher))
  IN IF Len(matching) <= cypher.limit THEN {matching}
     ELSE Subseqs(matching, cypher.limit)

\* The outcomes of the session: it cannot be opened (always so on a closed
\* driver), the query fails, the iteration fails after some records, with
\* partial nodes of the next record already formatted, or all is read.
IssueOutcomes(driver, cypher) ==
  IF driver = "closed"
  THEN {[status |-> "session_error", records |-> <<>>, consumed |-> 0, partial |-> 0]}
  ELSE {[status |-> "run_error", records |-> <<>>, consumed |-> 0, partial |-> 0]} \cup
       {[status |-> "ok", records |-> r, consumed |-> Len(r), partial |-> 0] :
          r \in IssueRecords(cypher)} \cup
       {[status |-> "iter_error", records |-> r, consumed |-> k, partial |-> p] :
          r \in {x \in IssueRecords(cypher) : x # <<>>}, k \in {0, 1, cypher.limit - 1},
          p \in {0, 1}}

\* issue.get(field, '')
IssueGet(issue, field) == IF field \in DOMAIN issue THEN issue[field] ELSE ""

IssueData(issue) ==
  [ticket_id |-> IssueGet(issue, "id"), title |-> IssueGet(issue, "title"),
   description |-> IssueGet(issue, "description"), status |-> IssueGet(issue, "status"),
   priority |-> IssueGet(issue, "priority"), node_type |-> "Issue",
   score |-> IssueScore, source |-> "graph"]

\* Mutant of RelatedData: every related node is formatted.
RelatedDataAll(issue) ==
  LET labelled == SelectSeq(issue.related, LAMBDA node : node.labels # <<>>)
  IN [m \in 1..Len(labelled) |->
        [ticket_id |-> IssueGet(issue, "id"), node_type |-> labelled[m].labels[1],
         text |-> labelled[m].text, score |-> RelatedScore, source |-> "graph_related"]]

\* for node in related_nodes[:5]: if hasattr(node, 'labels') and node.labels
RelatedData(issue) ==
  LET labelled == SelectSeq(SliceTo(issue.related, RelatedLimit),
                            LAMBDA node : node.labels # <<>>)
  IN [m \in 1..Len(labelled) |->
        [ticket_id |-> IssueGet(issue, "id"), node_type |-> labelled[m].labels[1],
         text |-> labelled[m].text, score |-> RelatedScore, source |-> "graph_related"]]

RecordNodes(issue) == <<IssueData(issue)>> \o RelatedData(issue)

RECURSIVE FormatRecords(_)
FormatRecords(records) ==
  IF records = <<>> THEN <<>>
  ELSE RecordNodes(Head(records)) \o FormatRecords(Tail(records))

\* retrieve_from_graph after the query is built: [] without a driver; the
\* nodes of the records read before a failure are kept and returned.
RetrieveFromGraph(driver, out) ==
  IF driver = "None" THEN [raised |-> FALSE, nodes |-> <<>>]
  ELSE IF out.status \in {"session_error", "run_error"} THEN [raised |-> FALSE, nodes |-> <<>>]
  ELSE IF out.status = "iter_error"
  THEN [raised |-> FALSE,
        nodes |-> FormatRecords(SubSeq(out.records, 1, out.consumed)) \o
                  (IF out.consumed < Len(out.records)
                   THEN SubSeq(RecordNodes(out.records[out.consumed + 1]), 1, out.partial)
                   ELSE <<>>)]
  ELSE [raised |-> FALSE, nodes |-> FormatRecords(out.records)]

LogIssues(c, cypher, out) ==
  [call |-> c, kind |-> "issues", ticket |-> "", text |-> cypher.where,
   limit |-> out.consumed, status |-> out.status, data |-> out.records]

\* One call of retrieve_from_graph(entities, intent).
RetrieveFromGraphCall(c) ==
  /\ pc[c] = "idle"
  /\ \E entities \in GraphEntityMaps, intent \in Intents :
       /\ processed_query' = [processed_query EXCEPT ![c] =
             [NoQuery EXCEPT !.entities = entities, !.intent = intent]]
       /\ IF neo4j_driver = "None"
          THEN /\ final_results' = [final_results EXCEPT ![c] =
                    RetrieveFromGraph(neo4j_driver, NoGraphCall).nodes]
               /\ pc' = [pc EXCEPT ![c] = "graph_done"]
               /\ UNCHANGED adapter_log
          ELSE \E out \in IssueOutcomes(neo4j_driver, IssueQuery(entities)) :
                 LET r == RetrieveFromGraph(neo4j_driver, out)
                 IN /\ final_results' = [final_results EXCEPT ![c] = r.nodes]
                    /\ pc' = [pc EXCEPT ![c] = IF r.raised THEN "raised" ELSE "graph_done"]
                    /\ adapter_log' = Append(adapter_log,
                                             LogIssues(c, IssueQuery(entities), out))
  /\ UNCHANGED <<conn, graph, stubbed, options, idx, ticket_scores, ticket_contributions,
                 ranked_tickets, top_k_candidates, cand>>

RetrieveFromGraph1 == RetrieveFromGraphCall(1)

NextGraph ==
  \/ Initialize
  \/ Close
  \/ RetrieveFromGraph1

SpecGraph == Init /\ [][NextGraph]_vars

\* ------------------------------------------------- what the adapters saw
\* The hits the vector searches of call c have returned so far, in order.
RECURSIVE HitsUpTo(_, _)
HitsUpTo(c, n) ==
  IF n = 0 THEN <<>>
  ELSE HitsUpTo(c, n - 1) \o
       (IF adapter_log[n].kind = "vector" /\ adapter_log[n].call = c
        THEN adapter_log[n].data ELSE <<>>)

HitsOf(c) == HitsUpTo(c, Len(adapter_log))

RECURSIVE ScoreSum(_, _)
ScoreSum(hits, tid) ==
  IF hits = <<>> THEN 0
  ELSE LET before == ScoreSum(SubSeq(hits, 1, Len(hits) - 1), tid)
           last == hits[Len(hits)]
       IN IF last.point.ticket_id = tid THEN Plus(before, last.score) ELSE before

HitCount(c, tid) == Cardinality({i \in 1..Len(HitsOf(c)) : HitsOf(c)[i].point.ticket_id = tid})

FirstSeen(c, tid) ==
  CHOOSE i \in 1..Len(HitsOf(c)) :
    /\ HitsOf(c)[i].point.ticket_id = tid
    /\ \A j \in 1..(i - 1) : HitsOf(c)[j].point.ticket_id # tid

CallsOfKind(c, kind) == {i \in LogOf(kind) : adapter_log[i].call = c}

Scored(c) == pc[c] \in {"extracting", "done"}

RankedIds(c) == {ranked_tickets[c][i].ticket_id : i \in 1..Len(ranked_tickets[c])}
TopKIds(c) == {top_k_candidates[c][i].ticket_id : i \in 1..Len(top_k_candidates[c])}
ResultIds(c) == {final_results[c][i].ticket_id : i \in 1..Len(final_results[c])}

\* The options as the caller gave them.
GivenThreshold(c) ==
  IF ~options[c].none /\ \E i \in 1..Len(options[c].dict) : options[c].dict[i].k = "confidence_threshold"
  THEN (CHOOSE e \in Range(options[c].dict) : e.k = "confidence_threshold").v
  ELSE 500

GivenMaxSources(c) ==
  IF ~options[c].none /\ \E i \in 1..Len(options[c].dict) : options[c].dict[i].k = "max_sources"
  THEN (CHOOSE e \in Range(options[c].dict) : e.k = "max_sources").v
  ELSE 5

\* ------------------------------------------------------------------ claims

\* C1: summation. At every point of a retrieve call and for every ticket id
\* T, the aggregate score of T is the sum of the scores of all hits with
\* ticket_id T that the vector searches of the call have returned; a ticket
\* without a hit has no score, and a ranked candidate carries that sum.
C1_Summation ==
  \A c \in Calls :
    /\ \A tid \in TicketIds :
         /\ DictGet(ticket_scores[c], tid, 0) = ScoreSum(HitsOf(c), tid)
         /\ DictHas(ticket_scores[c], tid) <=> HitCount(c, tid) > 0
    /\ \A i \in 1..Len(ranked_tickets[c]) :
         ranked_tickets[c][i].score = ScoreSum(HitsOf(c), ranked_tickets[c][i].ticket_id)

\* C1 witness: TIC-1 was hit twice with 0.5 and TIC-2 once with 0.4, so that
\* the aggregates are 1.0 and 0.4.
C1_Witness ==
  /\ pc[1] = "done"
  /\ HitCount(1, "TIC-1") = 2
  /\ HitCount(1, "TIC-2") = 1
  /\ DictGet(ticket_scores[1], "TIC-1", 0) = 1000
  /\ DictGet(ticket_scores[1], "TIC-2", 0) = 400

OnlyContext(c) == \A i \in 1..Len(Entities(c)) : Entities(c)[i].section = "context"

\* C2: a call whose EntityMap is empty or holds only the context key makes no
\* adapter call, returns the empty list and does not raise.
C2_EmptyEntityMap ==
  \A c \in Calls :
    (pc[c] # "idle" /\ OnlyContext(c)) =>
      /\ \A i \in 1..Len(adapter_log) : adapter_log[i].call # c
      /\ final_results[c] = <<>>
      /\ pc[c] # "raised"

\* C2 witness: a finished call on a context-only map with both stores connected.
C2_Witness ==
  /\ pc[1] = "done"
  /\ Len(Entities(1)) = 1
  /\ Entities(1)[1].section = "context"
  /\ qdrant_client = "set"
  /\ neo4j_driver = "open"
  /\ final_results[1] = <<>>

\* C3: threshold filter. Once scoring is over, a ticket is a candidate iff
\* its aggregate is at least the confidence threshold; every returned node
\* belongs to a ticket whose aggregate reaches the threshold; with threshold
\* 0 every ticket that appeared in a hit is a candidate.
C3_ThresholdFilter ==
  \A c \in Calls :
    Scored(c) =>
      /\ \A tid \in TicketIds :
           tid \in RankedIds(c) <=>
             (HitCount(c, tid) > 0 /\ ScoreSum(HitsOf(c), tid) >= GivenThreshold(c))
      /\ \A tid \in ResultIds(c) : ScoreSum(HitsOf(c), tid) >= GivenThreshold(c)
      /\ GivenThreshold(c) = 0 =>
           \A tid \in TicketIds : HitCount(c, tid) > 0 => tid \in RankedIds(c)

\* C3 witness: under the default threshold 0.5, TIC-1 with aggregate 0.4 is
\* dropped and TIC-2 with aggregate exactly 0.5 is kept and returned.
C3_Witness ==
  /\ pc[1] = "done"
  /\ GivenThreshold(1) = 500
  /\ ScoreSum(HitsOf(1), "TIC-1") = 400
  /\ ScoreSum(HitsOf(1), "TIC-2") = 500
  /\ RankedIds(1) = {"TIC-2"}
  /\ ResultIds(1) = {"TIC-2"}

\* C4: truncation. For max_sources = k >= 0 the candidates handed to the
\* extraction are the first min(k, n) of the n ranked tickets, the result
\* holds nodes of at most k tickets, and k = 0 gives an empty result without
\* any extraction call.
C4_Truncation ==
  \A c \in Calls :
    (Scored(c) /\ GivenMaxSources(c) >= 0) =>
      LET k == GivenMaxSources(c)
          n == Len(ranked_tickets[c])
          m == IF k < n THEN k ELSE n
      IN /\ Len(top_k_candidates[c]) = m
         /\ \A i \in 1..m : top_k_candidates[c][i] = ranked_tickets[c][i]
         /\ Cardinality(ResultIds(c)) <= k
         /\ ResultIds(c) \subseteq TopKIds(c)
         /\ k = 0 => /\ final_results[c] = <<>>
                     /\ CallsOfKind(c, "llm") = {}
                     /\ CallsOfKind(c, "graph") = {}

\* C4 witness: two tickets are ranked, max_sources is 1, and the finished
\* call returns nodes of the first one only.
C4_Witness ==
  /\ pc[1] = "done"
  /\ GivenMaxSources(1) = 1
  /\ Len(ranked_tickets[1]) = 2
  /\ ResultIds(1) = {ranked_tickets[1][1].ticket_id}

\* C5: ranking. The retained tickets are in non-increasing order of
\* aggregate score, and two tickets of equal score are in the order in which
\* their ticket ids were first discovered.
C5_StableRanking ==
  \A c \in Calls :
    Scored(c) =>
      \A i, j \in 1..Len(ranked_tickets[c]) :
        i < j =>
          /\ ranked_tickets[c][i].score >= ranked_tickets[c][j].score
          /\ ranked_tickets[c][i].score = ranked_tickets[c][j].score =>
               FirstSeen(c, ranked_tickets[c][i].ticket_id)
                 < FirstSeen(c, ranked_tickets[c][j].ticket_id)

\* C5 witness: TIC-2 was discovered before TIC-1, both reach the same
\* aggregate, and TIC-2 is ranked first.
C5_Witness ==
  /\ Scored(1)
  /\ Len(ranked_tickets[1]) = 2
  /\ ranked_tickets[1][1].score = ranked_tickets[1][2].score
  /\ ranked_tickets[1][1].ticket_id = "TIC-2"
  /\ FirstSeen(1, "TIC-2") < FirstSeen(1, "TIC-1")

ExtractionAllEmpty(c) ==
  \A i \in CallsOfKind(c, "graph") : ~(adapter_log[i].status = "ok" /\ adapter_log[i].limit > 0)

\* C6: fallback correctness. When no extraction of a finished call yielded a
\* node, every returned node is tagged as contribution fallback and the
\* ticket ids in the result are exactly those of the top-k candidates.
C6_FallbackCorrectness ==
  \A c \in Calls :
    (pc[c] = "done" /\ ExtractionAllEmpty(c)) =>
      /\ \A i \in 1..Len(final_results[c]) :
           final_results[c][i].source = "sti_contribution_fallback"
      /\ ResultIds(c) = TopKIds(c)

\* C6 witness: two top-k tickets, the chat model was asked for both, no
\* extraction yielded a node, and the call returned their contributions.
C6_Witness ==
  /\ pc[1] = "done"
  /\ ExtractionAllEmpty(1)
  /\ Cardinality(CallsOfKind(1, "llm")) = 2
  /\ TopKIds(1) = {"TIC-1", "TIC-2"}
  /\ Len(final_results[1]) >= 2

\* C7: anchoring. A traversal that is not anchored at the requested ticket
\* is discarded without being executed, so every query sent to the graph
\* store is anchored at the ticket it was proposed for.
C7_Anchoring ==
  \A i \in LogOf("graph") :
    /\ Len(adapter_log[i].text) >= 2
    /\ adapter_log[i].text[2] = Anchor(adapter_log[i].ticket)

RECURSIVE TotalLen(_)
TotalLen(d) == IF d = <<>> THEN 0 ELSE Len(Head(d).v) + TotalLen(Tail(d))

ExtractionFailed(c, tid) ==
  \/ \E i \in CallsOfKind(c, "llm") :
       adapter_log[i].ticket = tid /\ adapter_log[i].status # "ok"
  \/ \E i \in CallsOfKind(c, "graph") :
       adapter_log[i].ticket = tid /\ adapter_log[i].status # "ok"

NodesOf(c, tid) == SelectSeq(final_results[c], LAMBDA n : n.ticket_id = tid)

TaggedContributions(c, tid) ==
  LET contribs == DictGet(ticket_contributions[c], tid, <<>>)
  IN [i \in 1..Len(contribs) |-> [contribs[i] EXCEPT !.source = "sti_contribution_fallback"]]

\* C8: partial results. No exception escapes retrieve; a failed vector search
\* adds no hit while every hit of the other searches is kept in the
\* contributions; a ticket whose extraction failed is returned through its
\* contributions, and every top-k ticket is present in the result.
C8_PartialResults ==
  \A c \in Calls :
    /\ pc[c] # "raised"
    /\ TotalLen(ticket_contributions[c]) = Len(HitsOf(c))
    /\ pc[c] = "done" =>
         /\ TopKIds(c) \subseteq ResultIds(c)
         /\ \A tid \in TopKIds(c) :
              ExtractionFailed(c, tid) => NodesOf(c, tid) = TaggedContributions(c, tid)

\* C8 witness: one vector search failed, another returned hits, the chat
\* model failed for one ticket and the graph query for the other, and the
\* call still returned both tickets.
C8_Witness ==
  /\ pc[1] = "done"
  /\ \E i \in CallsOfKind(1, "vector") : adapter_log[i].status # "ok"
  /\ \E i \in CallsOfKind(1, "vector") : adapter_log[i].status = "ok" /\ Len(adapter_log[i].data) = 2
  /\ \E i \in CallsOfKind(1, "llm") : adapter_log[i].status = "llm_fail"
  /\ \E i \in CallsOfKind(1, "graph") : adapter_log[i].status = "run_error"
  /\ ResultIds(1) = {"TIC-1", "TIC-2"}

\* C9: idempotence. With deterministic stubs, the second of two successive
\* calls with identical arguments ranks the same candidates and returns a
\* list equal to the first call's, element by element, and the connections
\* are as the first call found them.
C9_Idempotent ==
  pc[2] = "done" =>
    /\ pc[1] = "done"
    /\ final_results[2] = final_results[1]
    /\ top_k_candidates[2] = top_k_candidates[1]

\* C9 witness: both calls are finished and the result holds subgraph nodes
\* of one ticket and fallback nodes of another.
C9_Witness ==
  /\ pc[2] = "done"
  /\ \E i \in 1..Len(final_results[1]) : final_results[1][i].source = "sigir24_subgraph"
  /\ \E i \in 1..Len(final_results[1]) : final_results[1][i].source = "sti_contribution_fallback"

RECURSIVE PairCount(_)
PairCount(m) ==
  IF m = <<>> THEN 0
  ELSE (IF Head(m).section = "context" THEN 0 ELSE Len(Head(m).value)) + PairCount(Tail(m))

\* C10: fan-out. Once scoring is over, the call has issued one vector search
\* per (category, value) pair outside the context category, each with a
\* single value as search text and limit 5.
C10_FanOut ==
  \A c \in Calls :
    (Scored(c) /\ qdrant_client = "set") =>
      /\ Cardinality(CallsOfKind(c, "vector")) = PairCount(Entities(c))
      /\ \A i \in CallsOfKind(c, "vector") :
           Len(adapter_log[i].text) = 1 /\ adapter_log[i].limit = 5

\* The graph queries of call c that returned at least one row for ticket tid.
Yielding(c, tid) ==
  {i \in CallsOfKind(c, "graph") :
     adapter_log[i].ticket = tid /\ adapter_log[i].status = "ok" /\ adapter_log[i].limit > 0}

\* C11: score inheritance. When the extraction for a top-k ticket yields at
\* least one node, every node returned for that ticket carries the ticket's
\* aggregate score, the source tag sigir24_subgraph and the candidate's
\* ticket id, and there is one such node per row of the extraction.
C11_ScoreInheritance ==
  \A c \in Calls :
    pc[c] = "done" =>
      \A k \in 1..Len(top_k_candidates[c]) :
        LET tid == top_k_candidates[c][k].ticket_id
        IN Yielding(c, tid) # {} =>
             /\ \A i \in Yielding(c, tid) : Len(NodesOf(c, tid)) = adapter_log[i].limit
             /\ \A n \in 1..Len(NodesOf(c, tid)) :
                  /\ NodesOf(c, tid)[n].score = ScoreSum(HitsOf(c), tid)
                  /\ NodesOf(c, tid)[n].score = top_k_candidates[c][k].score
                  /\ NodesOf(c, tid)[n].source = "sigir24_subgraph"

\* C11 witness: TIC-1 was hit with 0.4 and 0.5, its extraction returned two
\* rows, and both returned nodes carry 0.9.
C11_Witness ==
  /\ pc[1] = "done"
  /\ ScoreSum(HitsOf(1), "TIC-1") = 900
  /\ HitCount(1, "TIC-1") = 2
  /\ Yielding(1, "TIC-1") # {}
  /\ Len(NodesOf(1, "TIC-1")) = 2
  /\ \A n \in 1..2 : NodesOf(1, "TIC-1")[n].score = 900

\* Position of ticket tid among the top-k candidates of call c.
RankOf(c, tid) ==
  CHOOSE k \in 1..Len(top_k_candidates[c]) : top_k_candidates[c][k].ticket_id = tid

\* The labels of the child nodes a graph query was anchored at, in the
\* order of the store.
LabelsAt(i) ==
  LET tree == graph[adapter_log[i].text[2].arg]
  IN [n \in 1..Len(tree) |-> tree[n].label]

\* C12: output order. The result of a finished call is the concatenation of
\* one block per top-k ticket in ranking order: the nodes of a ticket are
\* contiguous, a fallback block is the ticket's contribution list in its
\* order, an extraction block is in the order of the rows, and nothing is
\* re-sorted by node score.
C12_OutputOrder ==
  \A c \in Calls :
    pc[c] = "done" =>
      /\ ResultIds(c) \subseteq TopKIds(c)
      /\ \A i, j \in 1..Len(final_results[c]) :
           i < j => RankOf(c, final_results[c][i].ticket_id)
                      <= RankOf(c, final_results[c][j].ticket_id)
      /\ \A tid \in TopKIds(c) :
           IF Yielding(c, tid) = {}
           THEN NodesOf(c, tid) = TaggedContributions(c, tid)
           ELSE \A i \in Yielding(c, tid) :
                  [n \in 1..Len(NodesOf(c, tid)) |-> NodesOf(c, tid)[n].node_type] = LabelsAt(i)

\* C12 witness: TIC-1 (0.4 then 0.5) is ranked before TIC-2 (0.5), TIC-1
\* falls back, the extraction of TIC-2 returned a row, and the result carries
\* the node scores 0.4, 0.5, 0.5 in that order.
C12_Witness ==
  /\ pc[1] = "done"
  /\ Len(final_results[1]) = 3
  /\ [n \in 1..3 |-> final_results[1][n].ticket_id] = <<"TIC-1", "TIC-1", "TIC-2">>
  /\ [n \in 1..3 |-> final_results[1][n].score] = <<400, 500, 500>>
  /\ \E i \in CallsOfKind(1, "graph") : adapter_log[i].status = "ok"

\* C13: every node returned by retrieve carries a non-empty ticket id,
\* whatever payload the vector store returned, a payload without the
\* ticket_id field included.
C13_TicketIdNonEmpty ==
  \A c \in Calls :
    \A i \in 1..Len(final_results[c]) : final_results[c][i].ticket_id # ""

\* The record retrieve_from_vectors is to build for one hit.
VectorRecord(hit) ==
  [ticket_id |-> IF "ticket_id" \in DOMAIN hit.point THEN hit.point.ticket_id ELSE "",
   node_type |-> hit.point.node_type,
   text |-> hit.point.text,
   score |-> hit.score,
   source |-> "vector",
   metadata |-> [vector_id |-> hit.point.id, node_id |-> ""]]

RecordsFor(hits, tid) ==
  SelectSeq([i \in 1..Len(hits) |-> VectorRecord(hits[i])], LAMBDA r : r.ticket_id = tid)

\* Call c is about to search for a category that is not the context.
AtSearch(c) ==
  /\ pc[c] = "scoring"
  /\ idx[c] <= Len(Entities(c))
  /\ Entities(c)[idx[c]].section # "context"

\* C19: vector search degradation. A step of retrieve that calls
\* retrieve_from_vectors never raises; without a client it calls no service
\* and gets the empty list, when the embedding or the search fails it gets
\* the empty list, and on success it gets one record per hit, in the order
\* of the index, each with source vector and the score of its hit.
C19_VectorDegradation ==
  [][\A c \in Calls :
       (AtSearch(c) /\ (idx'[c] # idx[c] \/ pc'[c] # pc[c])) =>
         /\ pc'[c] = "scoring"
         /\ idx'[c] = idx[c] + 1
         /\ IF qdrant_client = "None"
            THEN /\ adapter_log' = adapter_log
                 /\ ticket_contributions'[c] = ticket_contributions[c]
            ELSE /\ Len(adapter_log') = Len(adapter_log) + 1
                 /\ LET e == adapter_log'[Len(adapter_log')]
                    IN /\ e.kind = "vector"
                       /\ e.status # "ok" =>
                            /\ ticket_contributions'[c] = ticket_contributions[c]
                            /\ ticket_scores'[c] = ticket_scores[c]
                       /\ e.status = "ok" =>
                            /\ TotalLen(ticket_contributions'[c])
                                 = TotalLen(ticket_contributions[c]) + Len(e.data)
                            /\ \A tid \in TicketIds \cup {""} :
                                 DictGet(ticket_contributions'[c], tid, <<>>)
                                   = DictGet(ticket_contributions[c], tid, <<>>)
                                       \o RecordsFor(e.data, tid)]_vars

\* C19 witness: one search returned the Comment point of TIC-1 with 0.5 and
\* then its Description point with 0.4, and the records are held in that
\* order.
C19_Witness ==
  /\ \E i \in CallsOfKind(1, "vector") :
       /\ adapter_log[i].status = "ok"
       /\ [n \in 1..Len(adapter_log[i].data) |-> adapter_log[i].data[n].point.id] = <<3, 1>>
       /\ [n \in 1..Len(adapter_log[i].data) |-> adapter_log[i].data[n].score] = <<500, 400>>
  /\ LET held == DictGet(ticket_contributions[1], "TIC-1", <<>>)
     IN /\ [n \in 1..Len(held) |-> held[n].node_type] = <<"Comment", "Description">>
        /\ [n \in 1..Len(held) |-> held[n].score] = <<500, 400>>
        /\ \A n \in 1..Len(held) : held[n].source = "vector"

\* The composite key of the union path; a text of the model stands for its
\* first hundred characters.
DedupKey(node) == <<node.ticket_id, node.node_type, node.text>>

\* C14: legacy union path. The returned list holds no two nodes with the
\* same ticket id, node type and text prefix, every node's own score reaches
\* the confidence threshold, the nodes are in non-increasing order of their
\* own score, and there are at most max_sources of them.
C14_LegacyUnion ==
  \A c \in Calls :
    pc[c] = "done" =>
      /\ \A i, j \in 1..Len(final_results[c]) :
           i < j => /\ DedupKey(final_results[c][i]) # DedupKey(final_results[c][j])
                    /\ final_results[c][i].score >= final_results[c][j].score
      /\ \A i \in 1..Len(final_results[c]) : final_results[c][i].score >= GivenThreshold(c)
      /\ GivenMaxSources(c) >= 0 => Len(final_results[c]) <= GivenMaxSources(c)

WriteTokens == {"DETACH DELETE", "CREATE"}

\* C15: read-only retrieval. Whatever the chat model proposes, a text that
\* starts with MATCH and carries a write clause included, retrieve leaves
\* the graph store as it was and sends no query with a write clause to it.
C15_ReadOnly ==
  /\ graph = InitialGraph
  /\ \A i \in LogOf("graph") :
       \A n \in 1..Len(adapter_log[i].text) : adapter_log[i].text[n].tok \notin WriteTokens

\* The first word of an answer of the chat model, code fence markers and
\* white space aside.
RECURSIVE FirstWord(_)
FirstWord(content) ==
  IF content = <<>> THEN ""
  ELSE IF Head(content).tok \in {"SP", "[fence]", "[fence]cypher"} THEN FirstWord(Tail(content))
  ELSE Head(content).tok

\* The extraction of call c for ticket tid ended without a complete row set.
ExtractionMissed(c, tid) ==
  \/ CallsOfKind(c, "llm") = {}
  \/ \E i \in CallsOfKind(c, "llm") :
       /\ adapter_log[i].ticket = tid
       /\ \/ adapter_log[i].status # "ok"
          \/ FirstWord(adapter_log[i].data) \notin {"MATCH", "match"}
  \/ \E i \in CallsOfKind(c, "graph") :
       adapter_log[i].ticket = tid /\ adapter_log[i].status # "ok"

\* C18: _extract_subgraph never raises. When the driver is absent, the chat
\* model fails, the answer does not start with MATCH (in any case, code
\* fences stripped) or the execution raises at any row, it returns the empty
\* list, none of the rows collected before the failure included, so that the
\* ticket is returned through its contributions; an answer is sent to the
\* graph store exactly when it starts with MATCH.
C18_ExtractNeverRaises ==
  \A c \in Calls :
    /\ pc[c] # "raised"
    /\ \A i \in CallsOfKind(c, "llm") :
         (adapter_log[i].status = "ok" /\ FirstWord(adapter_log[i].data) \in {"MATCH", "match"})
           <=> (i < Len(adapter_log) /\ adapter_log[i + 1].kind = "graph"
                /\ adapter_log[i + 1].ticket = adapter_log[i].ticket)
    /\ pc[c] = "done" =>
         \A tid \in TopKIds(c) :
           ExtractionMissed(c, tid) =>
             /\ NodesOf(c, tid) = TaggedContributions(c, tid)
             /\ \A n \in 1..Len(NodesOf(c, tid)) : NodesOf(c, tid)[n].source # "sigir24_subgraph"

\* C18 witness: the rows of TIC-1 were being read when the iteration raised
\* after the first row, and TIC-1 is returned through its contribution; the
\* answer for TIC-2 began with prose.
C18_Witness ==
  /\ pc[1] = "done"
  /\ \E i \in CallsOfKind(1, "graph") :
       /\ adapter_log[i].ticket = "TIC-1"
       /\ adapter_log[i].status = "iter_error"
       /\ adapter_log[i].limit = 1
  /\ Len(NodesOf(1, "TIC-1")) = 1
  /\ NodesOf(1, "TIC-1")[1].source = "sti_contribution_fallback"
  /\ \E i \in CallsOfKind(1, "llm") :
       adapter_log[i].ticket = "TIC-2" /\ FirstWord(adapter_log[i].data) = "Here is the query:"

\* The adapter calls of call c, in order, without the number of the call.
CallLog(c) ==
  LET own == SelectSeq(adapter_log, LAMBDA e : e.call = c)
  IN [i \in 1..Len(own) |->
        [kind |-> own[i].kind, ticket |-> own[i].ticket, text |-> own[i].text,
         limit |-> own[i].limit, status |-> own[i].status, data |-> own[i].data]]

\* C16: non-interference of unused inputs. Two calls whose records agree on
\* entities and original_query and differ in intent, confidence or
\* processing_method return identical results and issue the same adapter
\* calls, the stubs being deterministic.
C16_NonInterference ==
  (/\ pc[2] = "done"
   /\ processed_query[2].entities = processed_query[1].entities
   /\ processed_query[2].original_query = processed_query[1].original_query
   /\ options[2] = options[1]) =>
    /\ final_results[2] = final_results[1]
    /\ Len(CallLog(2)) = Len(CallLog(1))
    /\ CallLog(2) = CallLog(1)

\* C16 witness: the second call was a general inquiry, the first a
\* troubleshooting request, both are finished with the nodes of two tickets.
C16_Witness ==
  /\ pc[2] = "done"
  /\ processed_query[1].intent = "troubleshooting"
  /\ processed_query[2].intent = "general_inquiry"
  /\ ResultIds(2) = {"TIC-1", "TIC-2"}
  /\ Len(CallLog(2)) >= 4

\* C17: options handling. Without options, or without the key, the call
\* keeps the tickets whose aggregate reaches 0.5 and hands at most 5 of them
\* to the extraction; two calls whose options agree on max_sources and
\* confidence_threshold return identical results, whatever other keys
\* (include_similar, unknown ones) they carry.
C17_OptionsHandling ==
  /\ \A c \in Calls :
       Scored(c) =>
         /\ Given(options[c], "confidence_threshold") = <<>> =>
              RankedIds(c) = {tid \in WideTickets :
                                HitCount(c, tid) > 0 /\ ScoreSum(HitsOf(c), tid) >= 500}
         /\ Given(options[c], "max_sources") = <<>> =>
              Len(top_k_candidates[c])
                = (IF Len(ranked_tickets[c]) < 5 THEN Len(ranked_tickets[c]) ELSE 5)
  /\ (pc[2] = "done" /\ processed_query[2] = processed_query[1]
        /\ Agree(options[2], options[1])) =>
       final_results[2] = final_results[1]

\* C17 witness: the first call had no options, seven tickets were hit, TIC-7
\* stayed under 0.5, six were ranked and five returned; the second call
\* carried include_similar only.
C17_Witness ==
  /\ pc[2] = "done"
  /\ options[1] = NoOptions
  /\ Given(options[2], "include_similar") = <<TRUE>>
  /\ HitCount(1, "TIC-7") = 1
  /\ Len(ranked_tickets[1]) = 6
  /\ Len(top_k_candidates[1]) = 5
  /\ Cardinality(ResultIds(2)) = 5

\* C20: no blending. Every node of a result is tagged sigir24_subgraph or
\* sti_contribution_fallback, never graph, graph_related or vector; all
\* nodes of one ticket carry the same tag; and every query retrieve sends to
\* the graph store is the answer the chat model gave just before for the
\* same ticket, never the entity traversal of retrieve_from_graph.
C20_NoBlending ==
  /\ \A c \in Calls :
       /\ \A i \in 1..Len(final_results[c]) :
            final_results[c][i].source \in {"sigir24_subgraph", "sti_contribution_fallback"}
       /\ \A i, j \in 1..Len(final_results[c]) :
            final_results[c][i].ticket_id = final_results[c][j].ticket_id =>
              final_results[c][i].source = final_results[c][j].source
  /\ \A i \in LogOf("graph") :
       /\ i > 1
       /\ adapter_log[i - 1].kind = "llm"
       /\ adapter_log[i - 1].ticket = adapter_log[i].ticket
       /\ Sanitize(adapter_log[i - 1].data) = adapter_log[i].text

\* C20 witness: a finished call returned two extracted nodes of TIC-1 and
\* two contributions of TIC-2.
C20_Witness ==
  /\ pc[1] = "done"
  /\ Len(NodesOf(1, "TIC-1")) = 2
  /\ \A n \in 1..2 : NodesOf(1, "TIC-1")[n].source = "sigir24_subgraph"
  /\ Len(NodesOf(1, "TIC-2")) = 2
  /\ \A n \in 1..2 : NodesOf(1, "TIC-2")[n].source = "sti_contribution_fallback"

Filled(row, key) == key \in DOMAIN row /\ row[key] \notin {"<None>", ""}

\* The rows the graph query logged at position i returned.
RowsAt(i) == QueryRows(graph, adapter_log[i].text)

\* C21: row normalisation. For every row of an extraction, the text of the
\* node is the row's text value if present and non-empty, otherwise its
\* content value if present and non-empty, otherwise the serialisation of
\* the row; the node type is the row's type value if present and non-empty,
\* otherwise SubNode; the text of a subgraph node is never empty.
C21_RowNormalisation ==
  \A c \in Calls :
    pc[c] = "done" =>
      \A tid \in TopKIds(c) :
        \A i \in Yielding(c, tid) :
          /\ Len(NodesOf(c, tid)) = Len(RowsAt(i))
          /\ \A n \in 1..Len(RowsAt(i)) :
               LET row == RowsAt(i)[n]
                   node == NodesOf(c, tid)[n]
               IN /\ node.text = (IF Filled(row, "text") THEN row.text
                                  ELSE IF Filled(row, "content") THEN row.content
                                  ELSE StrOfRow(row))
                  /\ node.node_type = (IF Filled(row, "type") THEN row.type ELSE "SubNode")
                  /\ node.text \notin {"", "<None>"}
                  /\ node.node_type \notin {"", "<None>"}

\* C21 witness: the first row of TIC-1 had an empty text, a filled content
\* and no type, and the returned node has the content as text and the type
\* SubNode.
C21_Witness ==
  /\ pc[1] = "done"
  /\ \E i \in Yielding(1, "TIC-1") :
       /\ Len(RowsAt(i)) = 2
       /\ "text" \in DOMAIN RowsAt(i)[1]
       /\ RowsAt(i)[1].text = ""
       /\ RowsAt(i)[1].content = "filled"
       /\ RowsAt(i)[1].type = "<None>"
  /\ NodesOf(1, "TIC-1")[1].text = "filled"
  /\ NodesOf(1, "TIC-1")[1].node_type = "SubNode"

RECURSIVE SumScores(_)
SumScores(nodes) ==
  IF nodes = <<>> THEN 0
  ELSE Plus(SumScores(SubSeq(nodes, 1, Len(nodes) - 1)), nodes[Len(nodes)].score)

\* C22: contribution bag. At every point of the scoring loop and for every
\* ticket T, the contributions of T are exactly the records of the hits with
\* ticket id T in the order of their discovery, duplicates kept; the score
\* and the contribution dictionaries have the same keys; and the score of T
\* is the sum of the scores of its contributions.
C22_ContributionBag ==
  \A c \in Calls :
    pc[c] = "scoring" =>
      /\ DictKeys(ticket_scores[c]) = DictKeys(ticket_contributions[c])
      /\ \A tid \in TicketIds :
           /\ DictGet(ticket_contributions[c], tid, <<>>) = RecordsFor(HitsOf(c), tid)
           /\ DictHas(ticket_contributions[c], tid) <=> RecordsFor(HitsOf(c), tid) # <<>>
           /\ DictGet(ticket_scores[c], tid, 0)
                = SumScores(DictGet(ticket_contributions[c], tid, <<>>))

\* C22 witness: in the scoring loop, the same point of TIC-1 was returned
\* with 0.5 by two searches and is held twice, after a hit of TIC-2.
C22_Witness ==
  /\ pc[1] = "scoring"
  /\ DictKeys(ticket_contributions[1]) = <<"TIC-2", "TIC-1">>
  /\ Len(DictGet(ticket_contributions[1], "TIC-1", <<>>)) = 2
  /\ DictGet(ticket_contributions[1], "TIC-1", <<>>)[1]
       = DictGet(ticket_contributions[1], "TIC-1", <<>>)[2]
  /\ DictGet(ticket_scores[1], "TIC-1", 0) = 1000

\* C23: order independence of scoring. When two calls process the same
\* entries in different orders, every ticket ends with the same aggregate
\* score in both, and the same tickets pass the threshold.
C23_OrderIndependence ==
  (/\ Scored(1) /\ Scored(2)
   /\ Range(Entities(2)) = Range(Entities(1))
   /\ options[2] = options[1]) =>
    /\ \A tid \in TicketIds :
         /\ DictHas(ticket_scores[2], tid) <=> DictHas(ticket_scores[1], tid)
         /\ DictGet(ticket_scores[2], tid, 0) = DictGet(ticket_scores[1], tid, 0)
    /\ RankedIds(2) = RankedIds(1)

\* The graph store as it would be after the first n logged adapter calls had
\* call c run alone.
RECURSIVE AloneGraph(_, _)
AloneGraph(c, n) ==
  IF n = 0 THEN InitialGraph
  ELSE LET g == AloneGraph(c, n - 1)
           e == adapter_log[n]
       IN IF e.kind = "graph" /\ e.call = c /\ e.status = "ok"
          THEN QueryEffect(g, e.text) ELSE g

\* C24: call isolation. In every interleaving of two calls on one instance,
\* each call ends with the aggregates of its own hits, and for every graph
\* query of its own that succeeded it returns the nodes it would have got
\* had it run alone: the rows of the store untouched by the other call, or
\* its contributions when there are none.
C24_CallIsolation ==
  \A c \in Calls :
    /\ \A tid \in TicketIds : DictGet(ticket_scores[c], tid, 0) = ScoreSum(HitsOf(c), tid)
    /\ pc[c] = "done" =>
         \A i \in CallsOfKind(c, "graph") :
           adapter_log[i].status = "ok" =>
             LET rows == QueryRows(AloneGraph(c, i - 1), adapter_log[i].text)
                 nodes == NodesOf(c, adapter_log[i].ticket)
             IN IF rows = <<>>
                THEN nodes = TaggedContributions(c, adapter_log[i].ticket)
                ELSE [n \in 1..Len(nodes) |-> nodes[n].node_type]
                       = [n \in 1..Len(rows) |-> rows[n].type]

\* The number of nodes the top-k ticket tid stands for in the result of call
\* c: the rows of its extraction when there are some, else its contributions.
BlockSize(c, tid) ==
  IF Yielding(c, tid) # {}
  THEN adapter_log[CHOOSE i \in Yielding(c, tid) : TRUE].limit
  ELSE Len(DictGet(ticket_contributions[c], tid, <<>>))

RECURSIVE BlockSum(_, _)
BlockSum(c, k) ==
  IF k = 0 THEN 0
  ELSE BlockSum(c, k - 1) + BlockSize(c, top_k_candidates[c][k].ticket_id)

\* C25: no secondary cap. The length of the result of a finished call is
\* the sum over its top-k tickets of the size of the extracted subgraph
\* when the extraction returned rows and of the number of contributions
\* otherwise; it is never cut to max_sources and is at least the number of
\* top-k tickets.
C25_NoSecondaryCap ==
  \A c \in Calls :
    pc[c] = "done" =>
      /\ Len(final_results[c]) = BlockSum(c, Len(top_k_candidates[c]))
      /\ Len(final_results[c]) >= Len(top_k_candidates[c])
      /\ \A tid \in TopKIds(c) : Len(NodesOf(c, tid)) = BlockSize(c, tid)

\* C25 witness: with max_sources 1 the call returned the single top ticket
\* TIC-1 as two nodes, more than max_sources.
C25_Witness ==
  /\ pc[1] = "done"
  /\ GivenMaxSources(1) = 1
  /\ Len(top_k_candidates[1]) = 1
  /\ Len(ranked_tickets[1]) = 2
  /\ Len(final_results[1]) = 2
  /\ Len(final_results[1]) > GivenMaxSources(1)

\* The tickets the chat model was asked about by call c, in the order of the
\* requests.
LlmTickets(c) ==
  LET asked == SelectSeq(adapter_log, LAMBDA e : e.kind = "llm" /\ e.call = c)
  IN [n \in 1..Len(asked) |-> asked[n].ticket]

\* C26: phase ordering. Every vector search of a call comes before its first
\* subgraph extraction; the extraction is run once per top-k candidate, in
\* ranking order, with the candidate's ticket id and the original query
\* text, never for a ticket under the threshold or behind the cut, and an
\* extraction that failed does not stop the extractions that follow.
C26_PhaseOrdering ==
  \A c \in Calls :
    /\ \A i \in CallsOfKind(c, "vector"), j \in CallsOfKind(c, "llm") : i < j
    /\ \A j \in CallsOfKind(c, "llm") :
         /\ adapter_log[j].text = <<processed_query[c].original_query>>
         /\ adapter_log[j].ticket \in TopKIds(c)
         /\ DictGet(ticket_scores[c], adapter_log[j].ticket, 0) >= ConfidenceThreshold(c)
    /\ ~Scored(c) => CallsOfKind(c, "llm") = {}
    /\ Scored(c) =>
         /\ cand[c] <= Len(top_k_candidates[c]) + 1
         /\ pc[c] = "done" => cand[c] = Len(top_k_candidates[c]) + 1
         /\ top_k_candidates[c] = SliceTo(ranked_tickets[c], TopK(c))
         /\ LlmTickets(c) = IF neo4j_driver = "None" THEN <<>>
                            ELSE [k \in 1..(cand[c] - 1) |-> top_k_candidates[c][k].ticket_id]

\* C26 witness: after two searches, the extraction of the first-ranked
\* TIC-1 failed at the chat model and the extraction of TIC-2 was run after
\* it; TIC-1 came back as its contributions.
C26_Witness ==
  /\ pc[1] = "done"
  /\ Cardinality(CallsOfKind(1, "vector")) = 2
  /\ LlmTickets(1) = <<"TIC-1", "TIC-2">>
  /\ \E j \in CallsOfKind(1, "llm") :
       adapter_log[j].ticket = "TIC-1" /\ adapter_log[j].status # "ok"
  /\ \E i \in CallsOfKind(1, "graph") :
       adapter_log[i].ticket = "TIC-2" /\ adapter_log[i].status = "ok"
  /\ NodesOf(1, "TIC-1") # <<>>
  /\ \A n \in 1..Len(NodesOf(1, "TIC-1")) :
       NodesOf(1, "TIC-1")[n].source = "sti_contribution_fallback"

\* The positions of the Issue nodes in a result of the graph traversal.
IssuePositions(res) == {i \in 1..Len(res) : res[i].source = "graph"}

\* The ticket ids of the Issue nodes of a result, in order.
IssueIdsOf(res) ==
  LET issues == SelectSeq(res, LAMBDA n : n.source = "graph")
  IN [i \in 1..Len(issues) |-> issues[i].ticket_id]

\* The stored issue meets every condition the entity map supplies.
MatchesEntities(issue, entities) ==
  /\ EntityGet(entities, "product") # <<>> =>
       \E x \in Range(EntityGet(entities, "product")) : x \in issue.product
  /\ EntityGet(entities, "error") # <<>> =>
       \E x \in Range(EntityGet(entities, "error")) : x \in issue.tags

\* C27: the legacy graph traversal is bounded and seeded by entity
\* containment. It never raises and returns [] without a driver; otherwise
\* it returns at most 10 Issue nodes (score 0.9, source graph) that match
\* every supplied product and error condition, each directly followed by at
\* most 5 related nodes (score 0.7, source graph_related) with the seed
\* issue's ticket id, at most 60 nodes in all; after a failure midway the
\* nodes collected so far are returned.
C27_LegacyGraphBounded ==
  \A c \in Calls :
    /\ pc[c] # "raised"
    /\ pc[c] = "graph_done" =>
         LET res == final_results[c]
             entities == processed_query[c].entities
         IN /\ neo4j_driver = "None" => res = <<>>
            /\ Cardinality(IssuePositions(res)) <= 10
            /\ Len(res) <= 60
            /\ \A i \in 1..Len(res) :
                 IF res[i].source = "graph"
                 THEN /\ res[i].score = 900
                      /\ res[i].node_type = "Issue"
                      /\ \E n \in 1..Len(IssueStore) :
                           /\ IssueStore[n].id = res[i].ticket_id
                           /\ MatchesEntities(IssueStore[n], entities)
                 ELSE /\ res[i].source = "graph_related"
                      /\ res[i].score = 700
                      /\ \E j \in IssuePositions(res) :
                           /\ j < i /\ i - j <= 5
                           /\ \A m \in (j + 1)..i : res[m].source = "graph_related"
                           /\ res[i].ticket_id = res[j].ticket_id
            /\ \A e \in CallsOfKind(c, "issues") :
                 LET read == [n \in 1..adapter_log[e].limit |-> adapter_log[e].data[n].id]
                 IN /\ adapter_log[e].status \in {"ok", "iter_error"} =>
                         /\ Len(IssueIdsOf(res)) >= Len(read)
                         /\ SubSeq(IssueIdsOf(res), 1, Len(read)) = read
                    /\ adapter_log[e].status = "ok" => IssueIdsOf(res) = read

\* C27 witness: called with a product and an error, the store answered ten
\* of its eleven matching issues and failed after nine were read; the nine
\* issues are returned, and TIC-2, which has six related nodes, is followed
\* by five of them.
C27_Witness ==
  /\ pc[1] = "graph_done"
  /\ EntityGet(processed_query[1].entities, "product") # <<>>
  /\ EntityGet(processed_query[1].entities, "error") # <<>>
  /\ \E e \in CallsOfKind(1, "issues") :
       /\ adapter_log[e].status = "iter_error"
       /\ Len(adapter_log[e].data) = 10
       /\ adapter_log[e].limit = 9
  /\ Cardinality(IssuePositions(final_results[1])) = 9
  /\ Cardinality({i \in 1..Len(final_results[1]) :
                    final_results[1][i].ticket_id = "TIC-2"}) = 6
  /\ Cardinality({n \in 1..Len(IssueStore) :
                    MatchesEntities(IssueStore[n], processed_query[1].entities)}) = 11

\* C28: fallback nodes keep node-level scores. Every node returned for a
\* top-k ticket whose extraction returned nothing is the record of one hit
\* of that ticket with its own score and fields, only the source replaced,
\* so the scores of the ticket's nodes add up to the ticket's aggregate;
\* the score of a single node is not held against the threshold.
C28_FallbackNodeScores ==
  \A c \in Calls :
    pc[c] = "done" =>
      \A k \in 1..Len(top_k_candidates[c]) :
        LET tid == top_k_candidates[c][k].ticket_id
            nodes == NodesOf(c, tid)
            records == RecordsFor(HitsOf(c), tid)
        IN Yielding(c, tid) = {} =>
             /\ Len(nodes) = Len(records)
             /\ \A n \in 1..Len(nodes) :
                  /\ nodes[n] = [records[n] EXCEPT !.source = "sti_contribution_fallback"]
                  /\ nodes[n].score \in Scores
             /\ SumScores(nodes) = top_k_candidates[c][k].score
             /\ SumScores(nodes) = DictGet(ticket_scores[c], tid, 0)
             /\ top_k_candidates[c][k].score >= ConfidenceThreshold(c)

\* C28 witness: under the default threshold 0.5, TIC-1 is retained with the
\* aggregate 0.9 and falls back to its two hits; the first returned node
\* carries 0.4, below the threshold, the second 0.5.
C28_Witness ==
  /\ pc[1] = "done"
  /\ ConfidenceThreshold(1) = 500
  /\ Yielding(1, "TIC-1") = {}
  /\ DictGet(ticket_scores[1], "TIC-1", 0) = 900
  /\ Len(NodesOf(1, "TIC-1")) = 2
  /\ NodesOf(1, "TIC-1")[1].score = 400
  /\ NodesOf(1, "TIC-1")[1].score < ConfidenceThreshold(1)
  /\ NodesOf(1, "TIC-1")[2].score = 500
  /\ \A n \in 1..2 : NodesOf(1, "TIC-1")[n].source = "sti_contribution_fallback"

\* The ticket ids of the first n tickets of the ranking of call c.
FirstRanked(c, n) == {ranked_tickets[c][i].ticket_id : i \in 1..n}

\* C29 as stated: with max_sources = -m, m >= 1, and at least one retained
\* ticket, a finished call does not return an empty result.
C29_NegativeNeverEmpty ==
  \A c \in Calls :
    (pc[c] = "done" /\ TopK(c) < 0 /\ Len(ranked_tickets[c]) >= 1) =>
      final_results[c] # <<>>

\* C29: negative max_sources. With max_sources = -m, m >= 1, and n retained
\* tickets, retrieve does not raise and processes the ranked list without
\* its m lowest-ranked tickets, that is its first max(n - m, 0) tickets; the
\* result is empty exactly when n <= m.
C29_NegativeMaxSources ==
  \A c \in Calls :
    /\ pc[c] # "raised"
    /\ (Scored(c) /\ TopK(c) < 0) =>
         LET n == Len(ranked_tickets[c])
             m == 0 - TopK(c)
             kept == IF n - m > 0 THEN n - m ELSE 0
         IN /\ top_k_candidates[c] = SubSeq(ranked_tickets[c], 1, kept)
            /\ pc[c] = "done" =>
                 /\ ResultIds(c) = FirstRanked(c, kept)
                 /\ final_results[c] = <<>> <=> n <= m

\* C29 witness: with max_sources -1 and two retained tickets, the call
\* returned nodes of the first-ranked ticket only.
C29_Witness ==
  /\ pc[1] = "done"
  /\ TopK(1) = 0 - 1
  /\ Len(ranked_tickets[1]) = 2
  /\ final_results[1] # <<>>
  /\ ResultIds(1) = {ranked_tickets[1][1].ticket_id}
  /\ ranked_tickets[1][2].ticket_id \notin ResultIds(1)

\* The nodes the loop appends for the candidate at hand when the extraction
\* runs without a graph driver.
WithoutDriver(c) ==
  LET candidate == top_k_candidates[c][cand[c]]
  IN Emit(ExtractSubgraph("None", graph, candidate.ticket_id, NoLlmCall, NoGraphCall).nodes,
          candidate)

\* C30: lifecycle. In every sequence of __init__, initialize, retrieve and
\* close, no retrieve call raises; a call that returns while the vector
\* client is unset returns the empty list and has made no adapter call, the
\* chat model and the graph store included; a call that returns while the
\* client is set and the driver is unset returns fallback-tagged nodes only,
\* as does every extraction that is run without a driver. The client is
\* never set while the driver is unset.
C30_Lifecycle ==
  [][\A c \in Calls :
       /\ pc'[c] # "raised"
       /\ (pc[c] = "extracting" /\ pc'[c] = "done") =>
            /\ qdrant_client = "None" =>
                 /\ final_results[c] = <<>>
                 /\ \A i \in 1..Len(adapter_log) : adapter_log[i].call # c
            /\ (qdrant_client = "set" /\ neo4j_driver = "None") =>
                 \A n \in 1..Len(final_results[c]) :
                   final_results[c][n].source = "sti_contribution_fallback"
       /\ (pc[c] = "extracting" /\ cand[c] <= Len(top_k_candidates[c])) =>
            \A n \in 1..Len(WithoutDriver(c)) :
              WithoutDriver(c)[n].source = "sti_contribution_fallback"
       /\ qdrant_client' = "set" => neo4j_driver' # "None"
    ]_vars

\* C30 witness: the first call, on a product, returned the empty list
\* without an adapter call; initialize then succeeded and the second call
\* returned nodes.
C30_Witness ==
  /\ pc[1] = "done"
  /\ Len(Entities(1)) = 1
  /\ Entities(1)[1].section = "product"
  /\ final_results[1] = <<>>
  /\ \A i \in 1..Len(adapter_log) : adapter_log[i].call # 1
  /\ qdrant_client = "set"
  /\ pc[2] = "done"
  /\ final_results[2] # <<>>
  /\ CallsOfKind(2, "llm") # {}

====
